---- MODULE Spec2Model ----
(***************************************************************************)
(* Model of the playback clock of input-log-viewer                         *)
(* (src/core/playback.rs, struct PlaybackState).                           *)
(*                                                                         *)
(* Frames are u64 values; every arithmetic step of the code is guarded so  *)
(* that it neither overflows nor underflows (saturating_sub, += 1 below an *)
(* upper bound, -= 1 above a lower bound), so frames are modelled as       *)
(* naturals.  f32 speeds are modelled as records: either NaN or a finite   *)
(* value counted in hundredths (0.25 is 25, 10.0 is 1000); comparisons     *)
(* with NaN are false, as in IEEE 754.  Instant values are ticks of a      *)
(* monotone wall clock `now`.                                              *)
(***************************************************************************)
EXTENDS Integers, Sequences, FiniteSets, TLC

VARIABLES
    total_frames,   \* the log's frame count, the argument passed to the operations
    current_frame,  \* PlaybackState.current_frame
    speed,          \* PlaybackState.speed
    loop_enabled,   \* PlaybackState.loop_enabled
    range_start,    \* PlaybackState.range_start (Option<u64>)
    range_end,      \* PlaybackState.range_end (Option<u64>)
    last_update,    \* PlaybackState.last_update (Instant)
    now,            \* the wall clock read by Instant::now()
    call,           \* the last operation called, its argument and its return value
    pre_frame,      \* current_frame when the last operation was called
    config_total_frames, \* TimelineConfig.total_frames
    visible_frames, \* TimelineConfig.visible_frames
    scroll_offset,  \* TimelineConfig.scroll_offset
    width,          \* width in pixels of timeline_rect and scrollbar_rect
    dragging,       \* egui: a drag of the timeline widget is in progress
    gesture,        \* where the drag in progress began, and whether it began a selection
    input,          \* the pointer, wheel and modifier input of the last render call
    action,         \* the Option<ViewAction> the last render call returned
    phase,          \* "render": the host renders next; "apply": it applies the action
    ticks,          \* number of render calls so far
    selection,      \* Selection: None, or Some of start, end and the dragging flag
    selection_start, \* the frame of the last StartSelection, retained by the host
    state,          \* InputLogViewerApp.state (AppState)
    log,            \* InputLogViewerApp.log: None, or Some of the log's metadata
    config_current_frame, \* TimelineConfig.current_frame
    pc,             \* the host's position in update(); "idle" when no host runs
    played,         \* number of playback-driven advance calls of the current update()
    matches,        \* SearchResult.matches of InputLogViewerApp.search.results
    current_index,  \* SearchResult.current_index (Option<usize>)
    has_searched,   \* SearchState.has_searched
    selected_input_index, \* SearchState.selected_input_index
    selected_state_index, \* SearchState.selected_state_index
    visible_ids,    \* FilterState.visible_ids of InputLogViewerApp.filter
    show_button,    \* FilterState.show_button
    show_axis1d,    \* FilterState.show_axis1d
    show_axis2d,    \* FilterState.show_axis2d
    initialized,    \* FilterState.initialized
    recent_files,   \* AppSettings.recent_files
    loaded_file_path, \* InputLogViewerApp.loaded_file_path (Option<PathBuf>)
    status_message  \* InputLogViewerApp.status_message (Option<StatusMessage>)

\* The viewport, the drag in progress and the last interaction.
view == <<config_total_frames, visible_frames, scroll_offset, width, dragging, gesture, input,
          action, phase, ticks, selection, selection_start>>

\* SearchState: the result of the last search and the selection of the dialog.
search == <<matches, current_index, has_searched, selected_input_index, selected_state_index>>

\* FilterState
filter == <<visible_ids, show_button, show_axis1d, show_axis2d, initialized>>

\* The host application around the clock and the viewport.
app == <<state, log, config_current_frame, pc, played, status_message, search>>

\* The filter, the settings and the loaded file's path.
session == <<filter, recent_files, loaded_file_path>>

vars == <<total_frames, current_frame, speed, loop_enabled, range_start,
          range_end, last_update, now, call, pre_frame, view, app, session>>

clock == <<current_frame, speed, loop_enabled, range_start, range_end, last_update>>

\* The last operation called; its argument (frame, speed or target_fps), Unit
\* when it has none; its return value, Unit when it has none.
op == call[1]

arg == call[2]

ret == call[3]

----
\* Bounds of the model.
MaxFrames == 3
MaxTime == 1

Frames == 0..MaxFrames

Unit == "unit"

----
\* Option<u64>
None == <<>>

Some(x) == <<x>>

unwrap_or(o, d) == IF o = None THEN d ELSE o[1]

OptFrames == {None} \cup {Some(f) : f \in Frames}

\* The arguments set_range is called with: no bound, an inner frame, the
\* last frame of the longest log and one past it.
RangeArgs == {None, Some(1), Some(MaxFrames - 1), Some(MaxFrames)}

\* u64
saturating_sub(a, b) == IF a >= b THEN a - b ELSE 0

min(a, b) == IF a <= b THEN a ELSE b

max(a, b) == IF a >= b THEN a ELSE b

----
\* f32: NaN or a finite value in hundredths.
F32(h) == [nan |-> FALSE, x |-> h]

NaN == [nan |-> TRUE, x |-> 0]

FLt(a, b) == ~a.nan /\ ~b.nan /\ a.x < b.x

FGt(a, b) == FLt(b, a)

\* f32::clamp: a NaN is returned as it is.
F32Clamp(x, lo, hi) ==
    IF FLt(x, lo) THEN lo
    ELSE IF FGt(x, hi) THEN hi
    ELSE x

DEFAULT_SPEED == F32(100)

MIN_SPEED == F32(10)

MAX_SPEED == F32(1000)

SPEED_OPTIONS == <<F32(25), F32(50), F32(100), F32(200), F32(400)>>

\* The speeds a caller passes to set_speed: NaN, negative, zero, below the
\* minimum, the limits, the presets, values between presets, above the maximum.
SpeedArgs ==
    {NaN} \cup {F32(h) : h \in {-100, 0, 1, 5, 10, 15, 20, 25, 30, 50, 75,
                                 100, 150, 200, 250, 300, 400, 500, 800,
                                 999, 1000, 1001, 10000}}

\* The speeds of the clamp examples (0.01, 2.0, 100.0), and NaN.
SpeedExamples == {NaN, F32(1), F32(200), F32(10000)}

----
\* Queries of PlaybackState.
\* Variant: one frame before the range start.
effective_start_before_range == saturating_sub(unwrap_or(range_start, 0), 1)

effective_start == unwrap_or(range_start, 0)

\* Variant: a range_end beyond the log is not capped at the last frame.
effective_end_uncapped(total) ==
    IF range_end = None
    THEN saturating_sub(total, 1)
    ELSE range_end[1]

effective_end(total) ==
    IF range_end = None
    THEN saturating_sub(total, 1)
    ELSE min(range_end[1], saturating_sub(total, 1))

is_at_start == current_frame <= effective_start

is_at_end(total) == current_frame >= effective_end(total)

\* Variant: the comparison with the current speed is not strict.
RECURSIVE FirstAboveOrEqual(_, _)
FirstAboveOrEqual(i, s) ==
    IF i > Len(SPEED_OPTIONS) THEN SPEED_OPTIONS[Len(SPEED_OPTIONS)]
    ELSE IF ~FLt(SPEED_OPTIONS[i], s) /\ ~s.nan THEN SPEED_OPTIONS[i]
    ELSE FirstAboveOrEqual(i + 1, s)

RECURSIVE FirstAbove(_, _)
FirstAbove(i, s) ==
    IF i > Len(SPEED_OPTIONS) THEN SPEED_OPTIONS[Len(SPEED_OPTIONS)]
    ELSE IF FGt(SPEED_OPTIONS[i], s) THEN SPEED_OPTIONS[i]
    ELSE FirstAbove(i + 1, s)

next_speed_preset(s) == FirstAbove(1, s)

RECURSIVE LastBelow(_, _)
LastBelow(i, s) ==
    IF i < 1 THEN SPEED_OPTIONS[1]
    ELSE IF FLt(SPEED_OPTIONS[i], s) THEN SPEED_OPTIONS[i]
    ELSE LastBelow(i - 1, s)

prev_speed_preset(s) == LastBelow(Len(SPEED_OPTIONS), s)

----
\* The timeline viewport (gui/timeline.rs).

DEFAULT_VISIBLE_FRAMES == 100

MIN_VISIBLE_FRAMES == 10

MAX_VISIBLE_FRAMES == 10000

\* Option<ViewAction>: None, or the action with the handler that produced it
\* (by).  Fields an action does not carry are 0.
NoAction ==
    [type |-> "None", by |-> "none", visible_frames |-> 0, scroll_offset |-> 0,
     frame |-> 0]

\* A frame in which the pointer is outside the widget and nothing is pressed,
\* turned or held.
NoInput ==
    [area |-> "outside", x |-> 0, ev |-> "none", shift |-> FALSE,
     ctrl |-> FALSE, dy |-> 0, dx |-> 0, ddx |-> 0]

\* No drag is in progress.
NoGesture == [origin |-> "none", selecting |-> FALSE]

\* TimelineConfig::default() in a panel that was never interacted with.
ViewIdle ==
    /\ config_total_frames = 0
    /\ visible_frames = DEFAULT_VISIBLE_FRAMES
    /\ scroll_offset = 0
    /\ width = 1000
    /\ dragging = FALSE
    /\ gesture = NoGesture
    /\ input = NoInput
    /\ action = NoAction
    /\ phase = "render"
    /\ ticks = 0
    /\ selection = None
    /\ selection_start = None

\* SearchResult::new(), also SearchState::new().
NewSearch ==
    /\ matches = <<>>
    /\ current_index = None
    /\ has_searched = FALSE
    /\ selected_input_index = 0
    /\ selected_state_index = 0

\* FilterState::new().
NewFilter ==
    /\ visible_ids = {}
    /\ show_button = TRUE
    /\ show_axis1d = TRUE
    /\ show_axis2d = TRUE
    /\ initialized = FALSE

\* InputLogViewerApp::new() and AppSettings::default(): nothing searched,
\* nothing filtered, no file opened yet, no message shown.
NewSession ==
    /\ NewSearch
    /\ NewFilter
    /\ recent_files = <<>>
    /\ loaded_file_path = None
    /\ status_message = None

\* No host application runs: the clock or the renderer is driven directly.
HostIdle ==
    /\ NewSession
    /\ state = "NoFileLoaded"
    /\ log = None
    /\ config_current_frame = 0
    /\ pc = "idle"
    /\ played = 0

\* PlaybackState::new().
NewPlayback ==
    /\ current_frame = 0
    /\ speed = DEFAULT_SPEED
    /\ loop_enabled = TRUE
    /\ range_start = None
    /\ range_end = None
    /\ last_update = 0
    /\ now = 0
    /\ call = <<"new", Unit, Unit>>
    /\ pre_frame = 0

----
\* PlaybackState::new(), for a log of any length.
Init ==
    /\ NewPlayback
    /\ ViewIdle
    /\ HostIdle
    /\ total_frames \in Frames

\* The outcome of a call that can panic.
Returned(v) == [panic |-> FALSE, value |-> v]

Panicked == [panic |-> TRUE, value |-> FALSE]

\* A panic ends the program.
Crashed == op = "should_advance" /\ ret = Panicked

\* Wall-clock time passes between two operations.
Tick ==
    /\ ~Crashed
    /\ now < MaxTime
    /\ now' = now + 1
    /\ UNCHANGED <<total_frames, clock, call, pre_frame, view, app, session>>

\* The bookkeeping of a call: which operation, with which argument, returning what.
Call(name, a, r) ==
    /\ ~Crashed
    /\ call' = <<name, a, r>>
    /\ pre_frame' = current_frame
    /\ UNCHANGED <<total_frames, now, view, session>>
    /\ IF pc = "idle" THEN UNCHANGED app ELSE TRUE

\* One tick of the wall clock is 10 ms.
TicksPerSecond == 100

\* The target_fps values passed to should_advance.
FpsArgs == {0, 30, 60}

\* elapsed >= Duration::from_secs_f32(1.0 / (target_fps * speed)), for a
\* finite speed > 0 in hundredths and target_fps > 0: elapsed ticks of
\* 1/TicksPerSecond s against 100 / (target_fps * speed.x) s.
\* For a NaN speed, Duration::from_secs_f32 panics.
ElapsedReached(target_fps, s) ==
    (now - last_update) * target_fps * s.x >= 100 * TicksPerSecond

should_advance_value(target_fps) ==
    IF target_fps = 0 \/ (~speed.nan /\ speed.x <= 0) THEN Returned(FALSE)
    ELSE IF speed.nan THEN Panicked
    ELSE Returned(ElapsedReached(target_fps, speed))

should_advance(target_fps) ==
    /\ UNCHANGED clock
    /\ Call("should_advance", target_fps, should_advance_value(target_fps))

mark_advanced ==
    /\ last_update' = now
    /\ UNCHANGED <<current_frame, speed, loop_enabled, range_start, range_end>>
    /\ Call("mark_advanced", Unit, Unit)

reset_timing ==
    /\ last_update' = now
    /\ UNCHANGED <<current_frame, speed, loop_enabled, range_start, range_end>>
    /\ Call("reset_timing", Unit, Unit)

\* Variant: the frame is clamped to total_frames instead of total_frames - 1.
set_frame_off_by_one(frame) ==
    /\ current_frame' = min(frame, total_frames)
    /\ UNCHANGED <<speed, loop_enabled, range_start, range_end, last_update>>
    /\ Call("set_frame", frame, Unit)

set_frame(frame) ==
    /\ current_frame' = min(frame, saturating_sub(total_frames, 1))
    /\ UNCHANGED <<speed, loop_enabled, range_start, range_end, last_update>>
    /\ Call("set_frame", frame, Unit)

\* Variant: looping at the end goes back to frame 0, ignoring range_start.
advance_wraps_to_zero ==
    /\ IF current_frame >= effective_end(total_frames)
       THEN IF loop_enabled
            THEN /\ current_frame' = 0
                 /\ last_update' = now
                 /\ Call("advance", Unit, TRUE)
            ELSE /\ UNCHANGED <<current_frame, last_update>>
                 /\ Call("advance", Unit, FALSE)
       ELSE /\ current_frame' = current_frame + 1
            /\ last_update' = now
            /\ Call("advance", Unit, TRUE)
    /\ UNCHANGED <<speed, loop_enabled, range_start, range_end>>

\* Variant: the timestamp is updated even when advance stops at the end.
advance_stamps_at_end ==
    /\ IF current_frame >= effective_end(total_frames)
       THEN IF loop_enabled
            THEN /\ current_frame' = effective_start
                 /\ last_update' = now
                 /\ Call("advance", Unit, TRUE)
            ELSE /\ UNCHANGED current_frame
                 /\ last_update' = now
                 /\ Call("advance", Unit, FALSE)
       ELSE /\ current_frame' = current_frame + 1
            /\ last_update' = now
            /\ Call("advance", Unit, TRUE)
    /\ UNCHANGED <<speed, loop_enabled, range_start, range_end>>

advance ==
    /\ IF current_frame >= effective_end(total_frames)
       THEN IF loop_enabled
            THEN /\ current_frame' = effective_start
                 /\ last_update' = now
                 /\ Call("advance", Unit, TRUE)
            ELSE /\ UNCHANGED <<current_frame, last_update>>
                 /\ Call("advance", Unit, FALSE)
       ELSE /\ current_frame' = current_frame + 1
            /\ last_update' = now
            /\ Call("advance", Unit, TRUE)
    /\ UNCHANGED <<speed, loop_enabled, range_start, range_end>>

\* Variant: previous never loops to the end.
previous_without_loop ==
    /\ IF current_frame <= effective_start
       THEN UNCHANGED current_frame
       ELSE current_frame' = current_frame - 1
    /\ UNCHANGED <<speed, loop_enabled, range_start, range_end, last_update>>
    /\ Call("previous", Unit, Unit)

previous ==
    /\ IF current_frame <= effective_start
       THEN IF loop_enabled
            THEN current_frame' = effective_end(total_frames)
            ELSE UNCHANGED current_frame
       ELSE current_frame' = current_frame - 1
    /\ UNCHANGED <<speed, loop_enabled, range_start, range_end, last_update>>
    /\ Call("previous", Unit, Unit)

go_to_start ==
    /\ current_frame' = effective_start
    /\ UNCHANGED <<speed, loop_enabled, range_start, range_end, last_update>>
    /\ Call("go_to_start", Unit, Unit)

go_to_end ==
    /\ current_frame' = effective_end(total_frames)
    /\ UNCHANGED <<speed, loop_enabled, range_start, range_end, last_update>>
    /\ Call("go_to_end", Unit, Unit)

set_speed(s) ==
    /\ speed' = F32Clamp(s, MIN_SPEED, MAX_SPEED)
    /\ UNCHANGED <<current_frame, loop_enabled, range_start, range_end, last_update>>
    /\ Call("set_speed", s, Unit)

\* set_range that moves current_frame to the start of the new range.
set_range_seeking(start, end) ==
    /\ range_start' = start
    /\ range_end' = end
    /\ current_frame' = IF start = None THEN current_frame ELSE start[1]
    /\ UNCHANGED <<speed, loop_enabled, last_update>>
    /\ Call("set_range", <<start, end>>, Unit)

set_range(start, end) ==
    /\ range_start' = start
    /\ range_end' = end
    /\ UNCHANGED <<current_frame, speed, loop_enabled, last_update>>
    /\ Call("set_range", <<start, end>>, Unit)

clear_range ==
    /\ range_start' = None
    /\ range_end' = None
    /\ UNCHANGED <<current_frame, speed, loop_enabled, last_update>>
    /\ Call("clear_range", Unit, Unit)

\* loop_enabled is a public field, written by the caller.
set_loop_enabled(b) ==
    /\ loop_enabled' = b
    /\ UNCHANGED <<current_frame, speed, range_start, range_end, last_update>>
    /\ Call("set_loop_enabled", Unit, Unit)

call_is_at_start ==
    /\ UNCHANGED clock
    /\ Call("is_at_start", Unit, is_at_start)

call_is_at_end ==
    /\ UNCHANGED clock
    /\ Call("is_at_end", Unit, is_at_end(total_frames))

call_next_speed_preset ==
    /\ UNCHANGED clock
    /\ Call("next_speed_preset", Unit, next_speed_preset(speed))

call_prev_speed_preset ==
    /\ UNCHANGED clock
    /\ Call("prev_speed_preset", Unit, prev_speed_preset(speed))

Next ==
    \/ Tick
    \/ mark_advanced
    \/ reset_timing
    \/ \E frame \in Frames : set_frame(frame)
    \/ advance
    \/ previous
    \/ go_to_start
    \/ go_to_end
    \/ \E s \in SpeedExamples : set_speed(s)
    \/ \E start \in RangeArgs, end \in RangeArgs : set_range(start, end)
    \/ clear_range
    \/ \E b \in BOOLEAN : set_loop_enabled(b)
    \/ call_is_at_start
    \/ call_is_at_end
    \/ call_next_speed_preset
    \/ call_prev_speed_preset
    \/ \E target_fps \in FpsArgs : should_advance(target_fps)

Spec == Init /\ [][Next]_vars

\* The speed operations alone, over a wide set of speeds.
NextSpeed ==
    \/ Tick
    \/ \E s \in SpeedArgs : set_speed(s)
    \/ call_next_speed_preset
    \/ call_prev_speed_preset
    \/ \E target_fps \in FpsArgs : should_advance(target_fps)

SpecSpeed == Init /\ [][NextSpeed]_vars

----
\* f32 and f64 arithmetic on the timeline's pixel and frame quantities, as
\* exact fractions [n, d] in lowest terms with d > 0.  The pointer positions
\* and widths of the model are whole pixels; for them the compiled arithmetic
\* yields the exact value up to its last bits, which the cast to an integer
\* below accounts for.  The values a division by zero yields have d = 0:
\* [1, 0] is +inf, [-1, 0] is -inf and [0, 0] is NaN.

Abs(i) == IF i < 0 THEN -i ELSE i

Sgn(i) == IF i < 0 THEN -1 ELSE IF i > 0 THEN 1 ELSE 0

RECURSIVE Gcd(_, _)
Gcd(a, b) == IF b = 0 THEN a ELSE Gcd(b, a % b)

RatNaN == [n |-> 0, d |-> 0]

IsNaN(a) == a = RatNaN

Rat(n, d) ==
    IF d = 0 THEN [n |-> Sgn(n), d |-> 0]
    ELSE LET g == Gcd(Abs(n), d) IN [n |-> n \div g, d |-> d \div g]

RatInt(i) == [n |-> i, d |-> 1]

\* inf * 0 and NaN * x are NaN.
RatMul(a, b) ==
    IF a.d = 0 \/ b.d = 0 THEN [n |-> Sgn(a.n) * Sgn(b.n), d |-> 0]
    ELSE LET g1 == Gcd(Abs(a.n), b.d)
             g2 == Gcd(Abs(b.n), a.d)
         IN  [n |-> (a.n \div g1) * (b.n \div g2), d |-> (a.d \div g2) * (b.d \div g1)]

\* a / b; the zero divisors of the model are +0.0, so that x / 0 is +inf for
\* x > 0, -inf for x < 0 and NaN for x = 0.
RatDiv(a, b) ==
    IF b.d = 0 THEN (IF b.n = 0 \/ a.d = 0 THEN RatNaN ELSE RatInt(0))
    ELSE IF b.n = 0 THEN [n |-> Sgn(a.n), d |-> 0]
    ELSE RatMul(a, IF b.n > 0 THEN [n |-> b.d, d |-> b.n]
                   ELSE [n |-> -b.d, d |-> -b.n])

\* inf + (-inf) and NaN + x are NaN.
RatAdd(a, b) ==
    IF a.d = 0 /\ b.d = 0 THEN (IF a.n = b.n THEN a ELSE RatNaN)
    ELSE IF a.d = 0 THEN a
    ELSE IF b.d = 0 THEN b
    ELSE LET g == Gcd(a.d, b.d)
         IN  Rat(a.n * (b.d \div g) + b.n * (a.d \div g), (a.d \div g) * b.d)

RatNeg(a) == [n |-> -a.n, d |-> a.d]

RatSub(a, b) == RatAdd(a, RatNeg(b))

\* Every comparison with NaN is false.
RatLt(a, b) ==
    IF a.d = 0 /\ b.d = 0 THEN a.n = -1 /\ b.n = 1
    ELSE a.n * b.d < b.n * a.d

RatLe(a, b) ==
    IF IsNaN(a) \/ IsNaN(b) THEN FALSE
    ELSE IF a.d = 0 /\ b.d = 0 THEN a.n <= b.n
    ELSE a.n * b.d <= b.n * a.d

\* f32::max and f32::min return the other operand when one is NaN.
RatMax(a, b) ==
    IF IsNaN(a) THEN b ELSE IF IsNaN(b) THEN a
    ELSE IF RatLt(a, b) THEN b ELSE a

RatMin(a, b) ==
    IF IsNaN(a) THEN b ELSE IF IsNaN(b) THEN a
    ELSE IF RatLt(b, a) THEN b ELSE a

\* f32::clamp returns NaN for NaN.
RatClamp(x, lo, hi) ==
    IF RatLt(x, lo) THEN lo ELSE IF RatLt(hi, x) THEN hi ELSE x

\* The largest integer of the model, for u64::MAX.
U64_MAX == 2147483647

\* `x as u64` of a float: truncation toward zero, negative values and NaN to
\* 0, +inf to u64::MAX.  When x was computed with rounding (rounded) and its
\* exact value is a whole number k >= 1, the float can lie just under k, and
\* the cast gives k - 1 or k.
AsU64(x, rounded) ==
    IF x.n <= 0 THEN {0}
    ELSE IF x.d = 0 THEN {U64_MAX}
    ELSE IF rounded /\ x.d = 1 THEN {x.n - 1, x.n}
    ELSE {x.n \div x.d}

----
\* TimelineRenderer (gui/timeline.rs).  A handler is the set of results the
\* compiled code can return for the configuration and the input.

\* A zoom step that doubles or halves the visible frames.
ZOOM_FACTOR_two == Rat(2, 1)

ZOOM_FACTOR == Rat(115, 100)

SCROLL_SPEED == 10

Scroll(by, so) ==
    [type |-> "Scroll", by |-> by, visible_frames |-> 0, scroll_offset |-> so,
     frame |-> 0]

Zoom(vf, so) ==
    [type |-> "Zoom", by |-> "zoom", visible_frames |-> vf, scroll_offset |-> so,
     frame |-> 0]

StartSelection(fr) ==
    [type |-> "StartSelection", by |-> "selection", visible_frames |-> 0,
     scroll_offset |-> 0, frame |-> fr]

UpdateSelection(fr) ==
    [type |-> "UpdateSelection", by |-> "selection", visible_frames |-> 0,
     scroll_offset |-> 0, frame |-> fr]

FinishSelection ==
    [type |-> "FinishSelection", by |-> "selection", visible_frames |-> 0,
     scroll_offset |-> 0, frame |-> 0]

\* egui::Response of the timeline widget for the drag event of the frame: on
\* the first frame of a drag both drag_started() and dragged() hold, on the
\* frame of the release only drag_stopped(); interact_pointer_pos() is the
\* position of the pointer in that frame, in all three.
drag_started(inp) == inp.ev = "start"

dragged(inp) == inp.ev \in {"start", "move"}

drag_stopped(inp) == inp.ev = "stop"

interact_pointer_pos(inp) == IF inp.ev = "none" THEN None ELSE Some(inp)

\* config_total_frames.saturating_sub(visible)
max_scroll(visible) == saturating_sub(config_total_frames, visible)

\* width / visible_frames as f32
frame_width(visible) == RatDiv(RatInt(width), RatInt(visible))

calculate_scrollbar_thumb_width(track_width) ==
    IF config_total_frames = 0 THEN RatInt(track_width)
    ELSE RatMin(RatMax(RatMul(RatInt(track_width),
                              RatDiv(RatInt(visible_frames), RatInt(config_total_frames))),
                       RatInt(20)),
                RatInt(track_width))

handle_scrollbar_drag(inp) ==
    IF ~dragged(inp) THEN {NoAction}
    ELSE IF interact_pointer_pos(inp) = None THEN {NoAction}
    ELSE IF inp.area # "scrollbar" THEN {NoAction}
    ELSE LET thumb_width == calculate_scrollbar_thumb_width(width)
             usable_width == RatSub(RatInt(width), thumb_width)
         IN  IF usable_width.n <= 0 THEN {NoAction}
             ELSE LET relative_x ==
                          RatClamp(RatSub(RatInt(inp.x),
                                          RatDiv(thumb_width, RatInt(2))),
                                   RatInt(0), usable_width)
                      scroll_ratio == RatDiv(relative_x, usable_width)
                      product == RatMul(scroll_ratio,
                                        RatInt(max_scroll(visible_frames)))
                  IN  { Scroll("scrollbar", min(c, max_scroll(visible_frames))) :
                          c \in AsU64(product,
                                      scroll_ratio.n # 0 /\ scroll_ratio # RatInt(1)) }

\* The closure x_to_frame of handle_selection_drag.
x_to_frame(x) ==
    LET relative_x == IF x > 0 THEN x ELSE 0
        quotient == RatDiv(RatInt(relative_x), frame_width(visible_frames))
    IN  { min(scroll_offset + c, saturating_sub(config_total_frames, 1)) :
            c \in AsU64(quotient, relative_x # 0) }

handle_selection_drag(inp) ==
    IF interact_pointer_pos(inp) = None THEN {NoAction}
    ELSE IF inp.area # "timeline" THEN {NoAction}
    ELSE IF drag_started(inp) THEN { StartSelection(fr) : fr \in x_to_frame(inp.x) }
    ELSE IF dragged(inp) THEN { UpdateSelection(fr) : fr \in x_to_frame(inp.x) }
    ELSE IF drag_stopped(inp) THEN {FinishSelection}
    ELSE {NoAction}

\* handle_timeline_drag with the frame delta not negated.
handle_timeline_drag_not_negated(inp) ==
    IF inp.shift THEN handle_selection_drag(inp)
    ELSE IF ~dragged(inp) THEN {NoAction}
    ELSE IF interact_pointer_pos(inp) = None THEN {NoAction}
    ELSE IF inp.area # "timeline" THEN {NoAction}
    ELSE IF inp.ddx = 0 THEN {NoAction}
    ELSE LET frame_delta == RatDiv(RatInt(inp.ddx), frame_width(visible_frames))
             new_scroll == RatAdd(RatInt(scroll_offset), frame_delta)
             ms == max_scroll(visible_frames)
             clamped == IF RatLt(RatInt(ms), new_scroll) THEN {ms}
                        ELSE AsU64(new_scroll, TRUE)
         IN  { IF c = scroll_offset THEN NoAction ELSE Scroll("pan", c) :
                 c \in clamped }

handle_timeline_drag(inp) ==
    IF inp.shift THEN handle_selection_drag(inp)
    ELSE IF ~dragged(inp) THEN {NoAction}
    ELSE IF interact_pointer_pos(inp) = None THEN {NoAction}
    ELSE IF inp.area # "timeline" THEN {NoAction}
    ELSE IF inp.ddx = 0 THEN {NoAction}
    ELSE LET frame_delta == RatDiv(RatInt(-inp.ddx), frame_width(visible_frames))
             new_scroll == RatAdd(RatInt(scroll_offset), frame_delta)
             ms == max_scroll(visible_frames)
             clamped == IF RatLt(RatInt(ms), new_scroll) THEN {ms}
                        ELSE AsU64(new_scroll, TRUE)
         IN  { IF c = scroll_offset THEN NoAction ELSE Scroll("pan", c) :
                 c \in clamped }

\* The zoom step with the product rounded to the nearest whole number.
zoomed_visible_frames_rounded(scroll_delta) ==
    LET zoom_factor == IF scroll_delta > 0 THEN RatDiv(RatInt(1), ZOOM_FACTOR)
                       ELSE ZOOM_FACTOR
        product == RatMul(RatInt(visible_frames), zoom_factor)
        rounded == (2 * product.n + product.d) \div (2 * product.d)
    IN  IF rounded < MIN_VISIBLE_FRAMES THEN MIN_VISIBLE_FRAMES
        ELSE IF rounded > MAX_VISIBLE_FRAMES THEN MAX_VISIBLE_FRAMES
        ELSE rounded

\* (visible_frames as f32 * zoom_factor) as u64, clamped.  For every
\* visible_frames up to 20000 the f32 product truncates to the same whole
\* number as the exact products v / 1.15 and v * 1.15.
zoomed_visible_frames(scroll_delta) ==
    LET zoom_factor == IF scroll_delta > 0 THEN RatDiv(RatInt(1), ZOOM_FACTOR)
                       ELSE ZOOM_FACTOR
        product == RatMul(RatInt(visible_frames), zoom_factor)
        truncated == product.n \div product.d
    IN  IF truncated < MIN_VISIBLE_FRAMES THEN MIN_VISIBLE_FRAMES
        ELSE IF truncated > MAX_VISIBLE_FRAMES THEN MAX_VISIBLE_FRAMES
        ELSE truncated

\* handle_zoom without the final `.min(max_scroll)`.
handle_zoom_without_max_scroll(inp) ==
    LET new_visible_frames == zoomed_visible_frames(inp.dy)
    IN  IF new_visible_frames = visible_frames THEN {NoAction}
        ELSE LET mouse_offset_x == IF inp.x > 0 THEN inp.x ELSE 0
                 frame_under_mouse ==
                     RatAdd(RatInt(scroll_offset),
                            RatDiv(RatInt(mouse_offset_x), frame_width(visible_frames)))
                 new_scroll_offset ==
                     RatSub(frame_under_mouse,
                            RatDiv(RatInt(mouse_offset_x),
                                   frame_width(new_visible_frames)))
             IN  { Zoom(new_visible_frames, c) :
                     c \in AsU64(new_scroll_offset, mouse_offset_x # 0) }

\* handle_zoom that converts the pointer offset with the old frame width both
\* times, so that the offset does not follow the zoom.
handle_zoom_without_anchor(inp) ==
    LET new_visible_frames == zoomed_visible_frames(inp.dy)
    IN  IF new_visible_frames = visible_frames THEN {NoAction}
        ELSE LET mouse_offset_x == IF inp.x > 0 THEN inp.x ELSE 0
                 frame_under_mouse ==
                     RatAdd(RatInt(scroll_offset),
                            RatDiv(RatInt(mouse_offset_x), frame_width(visible_frames)))
                 new_scroll_offset ==
                     RatSub(frame_under_mouse,
                            RatDiv(RatInt(mouse_offset_x),
                                   frame_width(visible_frames)))
             IN  { Zoom(new_visible_frames, min(c, max_scroll(new_visible_frames))) :
                     c \in AsU64(new_scroll_offset, mouse_offset_x # 0) }

handle_zoom(inp) ==
    LET new_visible_frames == zoomed_visible_frames(inp.dy)
    IN  IF new_visible_frames = visible_frames THEN {NoAction}
        ELSE LET mouse_offset_x == IF inp.x > 0 THEN inp.x ELSE 0
                 frame_under_mouse ==
                     RatAdd(RatInt(scroll_offset),
                            RatDiv(RatInt(mouse_offset_x), frame_width(visible_frames)))
                 new_scroll_offset ==
                     RatSub(frame_under_mouse,
                            RatDiv(RatInt(mouse_offset_x),
                                   frame_width(new_visible_frames)))
             IN  { Zoom(new_visible_frames, min(c, max_scroll(new_visible_frames))) :
                     c \in AsU64(new_scroll_offset, mouse_offset_x # 0) }

\* handle_scroll without the clamp to [0, max_scroll].
handle_scroll_without_clamp(scroll_delta) ==
    LET scroll_amount == (scroll_delta * SCROLL_SPEED) \div 10
        new_scroll == scroll_offset + scroll_amount
        new_scroll_offset == IF new_scroll < 0 THEN 0 ELSE new_scroll
    IN  IF scroll_amount = 0 THEN {NoAction}
        ELSE IF new_scroll_offset = scroll_offset THEN {NoAction}
        ELSE {Scroll("wheel", new_scroll_offset)}

\* scroll_delta is a whole number of points, so scroll_delta * SCROLL_SPEED /
\* 10.0 is that number and its cast to i64 is exact.
handle_scroll(scroll_delta) ==
    LET scroll_amount == (scroll_delta * SCROLL_SPEED) \div 10
        new_scroll == scroll_offset + scroll_amount
        ms == max_scroll(visible_frames)
        new_scroll_offset == IF new_scroll < 0 THEN 0
                             ELSE IF new_scroll > ms THEN ms ELSE new_scroll
    IN  IF scroll_amount = 0 THEN {NoAction}
        ELSE IF new_scroll_offset = scroll_offset THEN {NoAction}
        ELSE {Scroll("wheel", new_scroll_offset)}

\* The wheel part of handle_mouse_interaction, reached when no drag handler
\* returned an action.
handle_wheel(inp) ==
    IF inp.area \notin {"timeline", "scrollbar"} THEN {NoAction}
    ELSE IF inp.ctrl /\ inp.dy # 0 THEN handle_zoom(inp)
    ELSE LET scroll_delta == IF inp.shift \/ inp.dx # 0 THEN -inp.dx - inp.dy
                             ELSE -inp.dy
         IN  IF scroll_delta # 0 THEN handle_scroll(scroll_delta) ELSE {NoAction}

\* `if let Some(action) = first { return Some(action); }` followed by rest.
OrElse(first, rest) ==
    (first \ {NoAction}) \cup (IF NoAction \in first THEN rest ELSE {})

\* handle_mouse_interaction that looks at the wheel before the drags.
handle_mouse_interaction_wheel_first(inp) ==
    OrElse(handle_wheel(inp),
           OrElse(handle_scrollbar_drag(inp), handle_timeline_drag(inp)))

handle_mouse_interaction(inp) ==
    OrElse(handle_scrollbar_drag(inp),
           OrElse(handle_timeline_drag(inp), handle_wheel(inp)))

\* egui delivers the drag events of one gesture in order: a drag starts only
\* when none is in progress, and moves or stops only while one is.
DragEventInOrder(inp) ==
    IF dragging THEN inp.ev \in {"move", "stop"} ELSE inp.ev \in {"none", "start"}

\* TimelineRenderer::render for the input of one frame: the configuration is
\* borrowed read-only and the action is returned to the host.
render(inp) ==
    /\ phase = "render"
    /\ DragEventInOrder(inp)
    /\ \E a \in handle_mouse_interaction(inp) :
          /\ action' = a
          /\ gesture' = IF inp.ev = "start"
                        THEN [origin |-> inp.area,
                              selecting |-> a.type = "StartSelection"]
                        ELSE IF inp.ev = "none" THEN NoGesture
                        ELSE gesture
    /\ input' = inp
    /\ dragging' = dragged(inp)
    /\ phase' = "apply"
    /\ ticks' = ticks + 1
    /\ UNCHANGED <<config_total_frames, visible_frames, scroll_offset, width>>
    /\ UNCHANGED <<selection, selection_start>>
    /\ UNCHANGED <<total_frames, clock, now, call, pre_frame, app, session>>

\* Selection (start, end, dragging).
Selection(start, end, drag) == [start |-> start, end |-> end, dragging |-> drag]

\* UpdateSelection computed from the current selection's start instead of the
\* frame of the StartSelection.
applied_selection_from_current(a) ==
    IF a.type = "StartSelection" THEN Some(Selection(a.frame, a.frame, TRUE))
    ELSE IF a.type = "UpdateSelection" /\ selection # None
    THEN Some(Selection(min(selection[1].start, a.frame),
                        max(selection[1].start, a.frame), TRUE))
    ELSE IF a.type = "FinishSelection" /\ selection # None
    THEN Some([selection[1] EXCEPT !.dragging = FALSE])
    ELSE selection

\* The Selection after the host applied the action: StartSelection replaces it
\* with (frame, frame, dragging), UpdateSelection with the normalized span from
\* the retained start frame to the frame, FinishSelection clears the dragging
\* flag.  An UpdateSelection or FinishSelection without a selection to act on
\* changes nothing.
applied_selection(a) ==
    IF a.type = "StartSelection" THEN Some(Selection(a.frame, a.frame, TRUE))
    ELSE IF a.type = "UpdateSelection" /\ selection_start # None
    THEN Some(Selection(min(selection_start[1], a.frame),
                        max(selection_start[1], a.frame), TRUE))
    ELSE IF a.type = "FinishSelection" /\ selection # None
    THEN Some([selection[1] EXCEPT !.dragging = FALSE])
    ELSE selection

\* The host applies the returned action: Zoom and Scroll write the viewport
\* fields, the selection actions the Selection.
apply_view_action ==
    /\ phase = "apply"
    /\ visible_frames' = IF action.type = "Zoom" THEN action.visible_frames
                         ELSE visible_frames
    /\ scroll_offset' = IF action.type \in {"Zoom", "Scroll"}
                        THEN action.scroll_offset
                        ELSE scroll_offset
    /\ selection' = applied_selection(action)
    /\ selection_start' = IF action.type = "StartSelection" THEN Some(action.frame)
                          ELSE selection_start
    /\ phase' = "render"
    /\ UNCHANGED <<config_total_frames, width, dragging, gesture, input, action, ticks>>
    /\ UNCHANGED <<total_frames, clock, now, call, pre_frame, app, session>>

----
\* The viewport under zoom, wheel, pan and scrollbar input, over a range of
\* log lengths and zoom levels.

MaxViewTicks == 3

ViewTotals == {0, 5, 100, 1000, 12000}

\* Zoom levels that Ctrl+wheel reaches from DEFAULT_VISIBLE_FRAMES.
ViewVisibles == {10, 11, 13, 100, 9784, 10000}

ViewWidths == {1000}

PointerXs == {0, 250, 500, 1000}

Input(area, x, ev, shift, ctrl, dy, dx, ddx) ==
    [area |-> area, x |-> x, ev |-> ev, shift |-> shift, ctrl |-> ctrl,
     dy |-> dy, dx |-> dx, ddx |-> ddx]

ZoomInputs ==
    { Input("timeline", x, "none", FALSE, TRUE, dy, 0, 0) :
        x \in PointerXs, dy \in {-1, 1} }

WheelInputs ==
    { Input("timeline", 500, "none", FALSE, FALSE, dy, 0, 0) : dy \in {-30, -1, 1, 30} }
      \cup {Input("scrollbar", 500, "none", TRUE, FALSE, 1, 2, 0)}

PanInputs ==
    { Input("timeline", 500, ev, FALSE, FALSE, 0, 0, ddx) :
        ev \in {"start", "move"}, ddx \in {-400, -5, 0, 5, 400} }

ScrollbarInputs ==
    { Input("scrollbar", x, ev, FALSE, FALSE, 0, 0, 0) :
        ev \in {"start", "move"}, x \in PointerXs }

SelectionInputs ==
    { Input("timeline", x, ev, TRUE, FALSE, 0, 0, 0) :
        ev \in {"start", "move", "stop"}, x \in {0, 500} }

ViewInputs ==
    ZoomInputs \cup WheelInputs \cup PanInputs \cup ScrollbarInputs
      \cup SelectionInputs \cup {Input("outside", 500, "stop", FALSE, FALSE, 0, 0, 0)}

\* A log of total_frames frames shown at some zoom level and scroll position.
InitView ==
    /\ NewPlayback
    /\ total_frames = 0
    /\ config_total_frames \in ViewTotals
    /\ visible_frames \in ViewVisibles
    /\ scroll_offset \in {0, max_scroll(visible_frames) \div 2, max_scroll(visible_frames)}
    /\ width \in ViewWidths
    /\ dragging = FALSE
    /\ gesture = NoGesture
    /\ input = NoInput
    /\ action = NoAction
    /\ phase = "render"
    /\ ticks = 0
    /\ selection = None
    /\ selection_start = None
    /\ HostIdle

NextView ==
    \/ ticks < MaxViewTicks /\ \E inp \in ViewInputs : render(inp)
    \/ apply_view_action

SpecView == InitView /\ [][NextView]_vars

----
\* The precedence of the handlers and the course of a drag gesture, over every
\* combination of drag event, pointer area, modifier and wheel.

MaxGestureTicks == 3

GestureInputs ==
    { Input(area, 500, ev, shift, ctrl, dy, 0, ddx) :
        area \in {"timeline", "scrollbar", "outside"},
        ev \in {"none", "start", "move", "stop"},
        shift \in BOOLEAN, ctrl \in BOOLEAN, dy \in {0, 1}, ddx \in {0, 50} }

InitGesture ==
    /\ NewPlayback
    /\ total_frames = 0
    /\ config_total_frames = 1000
    /\ visible_frames = DEFAULT_VISIBLE_FRAMES
    /\ scroll_offset = 450
    /\ width \in ViewWidths
    /\ dragging = FALSE
    /\ gesture = NoGesture
    /\ input = NoInput
    /\ action = NoAction
    /\ phase = "render"
    /\ ticks = 0
    /\ selection = None
    /\ selection_start = None
    /\ HostIdle

NextGesture ==
    \/ ticks < MaxGestureTicks /\ \E inp \in GestureInputs : render(inp)
    \/ apply_view_action

SpecGesture == InitGesture /\ [][NextGesture]_vars

----
\* The handlers on degenerate input: a timeline area of zero width (the widget
\* is exactly as wide as the label column, and the pointer can only be on the
\* area's left edge) or a configuration of zero frames.

MaxDegenerateTicks == 2

DegenerateWidths == {0, 1000}

DegenerateTotals == {0, 1000}

DegenerateInputs ==
    { Input(area, x, ev, shift, ctrl, dy, 0, ddx) :
        area \in {"timeline", "scrollbar", "outside"}, x \in {0, 500},
        ev \in {"none", "start", "move", "stop"},
        shift \in BOOLEAN, ctrl \in BOOLEAN, dy \in {-1, 0, 1},
        ddx \in {-50, 0, 50} }

\* Rect::contains: a pointer in an area is within the area's width.
PointerInArea(inp) == inp.area # "outside" => inp.x <= width

InitDegenerate ==
    /\ NewPlayback
    /\ total_frames = 0
    /\ config_total_frames \in DegenerateTotals
    /\ width \in DegenerateWidths
    /\ config_total_frames = 0 \/ width = 0
    /\ visible_frames \in {11, DEFAULT_VISIBLE_FRAMES}
    /\ scroll_offset \in {0, max_scroll(visible_frames) \div 2, max_scroll(visible_frames)}
    /\ dragging = FALSE
    /\ gesture = NoGesture
    /\ input = NoInput
    /\ action = NoAction
    /\ phase = "render"
    /\ ticks = 0
    /\ selection = None
    /\ selection_start = None
    /\ HostIdle

NextDegenerate ==
    \/ /\ ticks < MaxDegenerateTicks
       /\ \E inp \in DegenerateInputs : PointerInArea(inp) /\ render(inp)
    \/ apply_view_action

SpecDegenerate == InitDegenerate /\ [][NextDegenerate]_vars

----
\* Selection drags over the first frames of a log, with the actions applied
\* to the Selection.

MaxSelectionTicks == 4

\* Pointer positions over frames 2, 5 and 8 at 10 pixels per frame.
SelectionXs == {20, 50, 80}

SelectionDragInputs ==
    { Input(area, x, ev, shift, FALSE, 0, 0, 0) :
        area \in {"timeline", "outside"}, x \in SelectionXs,
        ev \in {"none", "start", "move", "stop"}, shift \in BOOLEAN }

InitSelection ==
    /\ NewPlayback
    /\ total_frames = 0
    /\ config_total_frames = 1000
    /\ visible_frames = DEFAULT_VISIBLE_FRAMES
    /\ scroll_offset = 0
    /\ width \in ViewWidths
    /\ dragging = FALSE
    /\ gesture = NoGesture
    /\ input = NoInput
    /\ action = NoAction
    /\ phase = "render"
    /\ ticks = 0
    /\ selection = None
    /\ selection_start = None
    /\ HostIdle

NextSelection ==
    \/ ticks < MaxSelectionTicks /\ \E inp \in SelectionDragInputs : render(inp)
    \/ apply_view_action

SpecSelection == InitSelection /\ [][NextSelection]_vars

----
\* core/search.rs: SearchQuery, SearchResult and find_matches.  An index into
\* matches is a usize counted from 0; the sequence matches is indexed from 1.

InputKinds == {"Button", "Axis1D", "Axis2D"}

ButtonStates == {"Released", "Pressed", "Held"}

InputEvent(frame, id, kind, st) == [frame |-> frame, id |-> id, kind |-> kind, state |-> st]

SearchQuery(input_id, kind, button_state) ==
    [input_id |-> input_id, kind |-> kind, button_state |-> button_state]

\* SearchQuery::is_empty
query_is_empty(q) == q.input_id = None /\ q.kind = None /\ q.button_state = None

\* SearchQuery::matches: the three checks in the order of the code; the state
\* check is made for Button events only.
query_matches(q, event) ==
    IF q.input_id # None /\ event.id # q.input_id[1] THEN FALSE
    ELSE IF q.kind # None /\ event.kind # q.kind[1] THEN FALSE
    ELSE IF /\ q.button_state # None
            /\ event.kind = "Button"
            /\ event.state # q.button_state[1] THEN FALSE
    ELSE TRUE

\* Vec::get
get(v, i) == IF i < Len(v) THEN Some(v[i + 1]) ELSE None

\* slice::sort_unstable on u64: insertion of each element into the sorted rest.
RECURSIVE insert_sorted(_, _)
insert_sorted(x, v) ==
    IF v = <<>> THEN <<x>>
    ELSE IF x <= Head(v) THEN <<x>> \o v
    ELSE <<Head(v)>> \o insert_sorted(x, Tail(v))

RECURSIVE sort_unstable(_)
sort_unstable(v) ==
    IF v = <<>> THEN <<>> ELSE insert_sorted(Head(v), sort_unstable(Tail(v)))

\* Vec::dedup: of consecutive equal elements the first is kept.
RECURSIVE dedup(_)
dedup(v) ==
    IF Len(v) <= 1 THEN v
    ELSE IF v[1] = v[2] THEN dedup(Tail(v))
    ELSE <<Head(v)>> \o dedup(Tail(v))

\* find_matches that sorts the frames and keeps the duplicates.
find_matches_value_without_dedup(events, q) ==
    IF query_is_empty(q) THEN <<>>
    ELSE LET matching == SelectSeq(events, LAMBDA event : query_matches(q, event))
             frames == [i \in 1..Len(matching) |-> matching[i].frame]
         IN  sort_unstable(frames)

\* find_matches: the frames of the matching events, sorted, without
\* duplicates; nothing for a query without criteria.
find_matches_value(events, q) ==
    IF query_is_empty(q) THEN <<>>
    ELSE LET matching == SelectSeq(events, LAMBDA event : query_matches(q, event))
             frames == [i \in 1..Len(matching) |-> matching[i].frame]
         IN  dedup(sort_unstable(frames))

\* Iterator::position(|&f| f >= frame), scanning from index i (counted from 1).
RECURSIVE position_from(_, _, _)
position_from(v, frame, i) ==
    IF i > Len(v) THEN None
    ELSE IF v[i] >= frame THEN Some(i - 1)
    ELSE position_from(v, frame, i + 1)

\* position with a strict comparison.
position_after(v, frame) ==
    LET S == {i \in 1..Len(v) : v[i] > frame}
    IN  IF S = {} THEN None ELSE Some((CHOOSE i \in S : \A j \in S : i <= j) - 1)

position(v, frame) == position_from(v, frame, 1)

\* The index next() moves to, without wrapping.
next_index_saturating(m, ci) ==
    IF ci = None THEN 0 ELSE min(ci[1] + 1, Len(m) - 1)

\* The index next() moves to on a non-empty result.
next_index(m, ci) ==
    IF ci = None THEN 0 ELSE (ci[1] + 1) % Len(m)

\* The index prev() moves to on a non-empty result.
prev_index(m, ci) ==
    IF ci = Some(0) THEN Len(m) - 1
    ELSE IF ci # None THEN ci[1] - 1
    ELSE Len(m) - 1

\* SearchResult::current_frame
result_current_frame ==
    IF current_index = None THEN None ELSE get(matches, current_index[1])

\* The bookkeeping of a call on the search result: the rest of the session,
\* the clock, the viewport and the host are left alone.
SearchCall(name, a, r) ==
    /\ call' = <<name, a, r>>
    /\ pre_frame' = current_frame
    /\ UNCHANGED <<has_searched, selected_input_index, selected_state_index>>
    /\ UNCHANGED <<state, log, config_current_frame, pc, played, status_message>>
    /\ UNCHANGED <<total_frames, clock, now, view, session>>

\* from_matches that starts at index 0 whatever the list.
from_matches_at_zero(m) ==
    /\ matches' = m
    /\ current_index' = Some(0)
    /\ SearchCall("from_matches", m, Unit)

\* SearchResult::from_matches
from_matches(m) ==
    /\ matches' = m
    /\ current_index' = IF m = <<>> THEN None ELSE Some(0)
    /\ SearchCall("from_matches", m, Unit)

\* SearchResult::next
next ==
    IF matches = <<>>
    THEN /\ UNCHANGED <<matches, current_index>>
         /\ SearchCall("next", Unit, None)
    ELSE LET new_index == next_index(matches, current_index)
         IN  /\ current_index' = Some(new_index)
             /\ UNCHANGED matches
             /\ SearchCall("next", Unit, get(matches, new_index))

\* SearchResult::prev
prev ==
    IF matches = <<>>
    THEN /\ UNCHANGED <<matches, current_index>>
         /\ SearchCall("prev", Unit, None)
    ELSE LET new_index == prev_index(matches, current_index)
         IN  /\ current_index' = Some(new_index)
             /\ UNCHANGED matches
             /\ SearchCall("prev", Unit, get(matches, new_index))

\* SearchResult::set_closest_to_frame
set_closest_to_frame(frame) ==
    /\ current_index' = IF matches = <<>> THEN None
                        ELSE Some(unwrap_or(position(matches, frame), 0))
    /\ UNCHANGED matches
    /\ SearchCall("set_closest_to_frame", frame, Unit)

\* find_matches(log, query) on the loaded log, its result made the search
\* result as perform_search does:
\* SearchResult::from_matches(find_matches(log, &query)).
find_matches(q) ==
    /\ log # None
    /\ LET found == find_matches_value(log[1].events, q)
       IN  /\ matches' = found
           /\ current_index' = IF found = <<>> THEN None ELSE Some(0)
           /\ SearchCall("find_matches", q, found)

\* The search result driven directly.
MaxMatches == 3

\* The frames of the matches.
MatchFrames == {0, 2, 3}

\* The vectors passed to from_matches: any frames in any order.
RECURSIVE SeqsUpTo(_, _)
SeqsUpTo(S, n) ==
    IF n = 0 THEN {<<>>}
    ELSE LET shorter == SeqsUpTo(S, n - 1)
         IN  shorter \cup { Append(v, x) : v \in {w \in shorter : Len(w) = n - 1}, x \in S }

MatchLists == SeqsUpTo(MatchFrames, MaxMatches)

InitSearch ==
    /\ NewPlayback
    /\ ViewIdle
    /\ HostIdle
    /\ total_frames = 0

NextSearch ==
    \/ \E m \in MatchLists : from_matches(m)
    \/ next
    \/ prev
    \/ \E frame \in 0..4 : set_closest_to_frame(frame)

SpecSearch == InitSearch /\ [][NextSearch]_vars

----
\* core/filter.rs: FilterState.  The mappings of a log are the sequence of
\* their input ids.

mapping_ids(mappings) == { mappings[i] : i \in DOMAIN mappings }

\* FilterState::is_visible
is_visible(id, kind) ==
    LET type_visible == CASE kind = "Button" -> show_button
                          [] kind = "Axis1D" -> show_axis1d
                          [] kind = "Axis2D" -> show_axis2d
    IN  IF ~type_visible THEN FALSE
        ELSE IF ~initialized \/ visible_ids = {} THEN TRUE
        ELSE id \in visible_ids

\* FilterState::enabled_type_count
enabled_type_count ==
    (IF show_button THEN 1 ELSE 0) + (IF show_axis1d THEN 1 ELSE 0)
        + (IF show_axis2d THEN 1 ELSE 0)

\* can_disable_type that lets every type be disabled.
can_disable_type_always(kind) == TRUE

\* FilterState::can_disable_type
can_disable_type(kind) ==
    LET is_currently_enabled == CASE kind = "Button" -> show_button
                                  [] kind = "Axis1D" -> show_axis1d
                                  [] kind = "Axis2D" -> show_axis2d
    IN  ~is_currently_enabled \/ enabled_type_count > 1

\* The bookkeeping of a call on the filter.
FilterCall(name, a, r) ==
    /\ call' = <<name, a, r>>
    /\ pre_frame' = current_frame
    /\ UNCHANGED <<total_frames, clock, now, view, app, recent_files, loaded_file_path>>

\* FilterState::initialize_from_log
initialize_from_log(mappings) ==
    /\ visible_ids' = mapping_ids(mappings)
    /\ initialized' = TRUE
    /\ UNCHANGED <<show_button, show_axis1d, show_axis2d>>
    /\ FilterCall("initialize_from_log", mappings, Unit)

\* FilterState::toggle_id
toggle_id(id) ==
    /\ visible_ids' = IF id \in visible_ids THEN visible_ids \ {id}
                      ELSE visible_ids \cup {id}
    /\ UNCHANGED <<show_button, show_axis1d, show_axis2d, initialized>>
    /\ FilterCall("toggle_id", id, Unit)

\* FilterState::set_id_visible
set_id_visible(id, visible) ==
    /\ visible_ids' = IF visible THEN visible_ids \cup {id} ELSE visible_ids \ {id}
    /\ UNCHANGED <<show_button, show_axis1d, show_axis2d, initialized>>
    /\ FilterCall("set_id_visible", <<id, visible>>, Unit)

\* FilterState::select_all
select_all(mappings) ==
    /\ visible_ids' = visible_ids \cup mapping_ids(mappings)
    /\ UNCHANGED <<show_button, show_axis1d, show_axis2d, initialized>>
    /\ FilterCall("select_all", mappings, Unit)

\* FilterState::deselect_all
deselect_all ==
    /\ visible_ids' = {}
    /\ UNCHANGED <<show_button, show_axis1d, show_axis2d, initialized>>
    /\ FilterCall("deselect_all", Unit, Unit)

\* FilterState::set_type_visible
set_type_visible(kind, visible) ==
    LET applied == visible \/ can_disable_type(kind)
    IN  /\ show_button' = IF applied /\ kind = "Button" THEN visible ELSE show_button
        /\ show_axis1d' = IF applied /\ kind = "Axis1D" THEN visible ELSE show_axis1d
        /\ show_axis2d' = IF applied /\ kind = "Axis2D" THEN visible ELSE show_axis2d
        /\ UNCHANGED <<visible_ids, initialized>>
        /\ FilterCall("set_type_visible", <<kind, visible>>, applied)

\* The filter driven directly: the inputs of the log that is filtered, and
\* the ids passed to the operations, one of which the log does not map.
FilterMappings == {<<1>>, <<1, 2>>}

FilterIds == {1, 2, 3}

InitFilter ==
    /\ NewPlayback
    /\ ViewIdle
    /\ HostIdle
    /\ total_frames = 0

NextFilter ==
    \/ \E mappings \in FilterMappings : initialize_from_log(mappings)
    \/ \E id \in FilterIds : toggle_id(id)
    \/ \E id \in FilterIds, visible \in BOOLEAN : set_id_visible(id, visible)
    \/ \E mappings \in FilterMappings : select_all(mappings)
    \/ deselect_all
    \/ \E kind \in InputKinds, visible \in BOOLEAN : set_type_visible(kind, visible)

SpecFilter == InitFilter /\ [][NextFilter]_vars

----
\* core/config.rs: AppSettings.recent_files.  A path is modelled as a number.

MAX_RECENT_FILES == 10

\* Vec::retain(|p| p != &path)
retain_other(v, path) == SelectSeq(v, LAMBDA p : p # path)

\* Vec::truncate
truncate(v, len) == IF Len(v) > len THEN SubSeq(v, 1, len) ELSE v

\* add_recent_file that does not remove the path from the list first.
recent_files_after_add_without_retain(path) ==
    truncate(<<path>> \o recent_files, MAX_RECENT_FILES)

\* The list add_recent_file leaves: the path removed, inserted at the front,
\* the list capped.
recent_files_after_add(path) ==
    truncate(<<path>> \o retain_other(recent_files, path), MAX_RECENT_FILES)

\* AppSettings::add_recent_file
add_recent_file(path) ==
    /\ recent_files' = recent_files_after_add(path)
    /\ call' = <<"add_recent_file", path, Unit>>
    /\ pre_frame' = current_frame
    /\ UNCHANGED <<total_frames, clock, now, view, app, filter, loaded_file_path>>

\* The settings driven directly.  The paths added: a path never added
\* before, as long as there is one, or one of the first three listed.
MaxPaths == 12

RecentPaths ==
    LET listed == { recent_files[i] : i \in DOMAIN recent_files }
        newest == IF listed = {} THEN 0 ELSE CHOOSE p \in listed : \A o \in listed : o <= p
    IN  { recent_files[i] : i \in DOMAIN recent_files \cap 1..3 }
          \cup (IF newest < MaxPaths THEN {newest + 1} ELSE {})

InitSettings ==
    /\ NewPlayback
    /\ ViewIdle
    /\ HostIdle
    /\ total_frames = 0

NextSettings == \E path \in RecentPaths : add_recent_file(path)

SpecSettings == InitSettings /\ [][NextSettings]_vars

----
\* InputLogViewerApp (gui/app.rs): the application state, load_file and the
\* steps of one update() call, in the order of the code.

\* AppState::is_playing, controls_enabled, toolbar_enabled.
is_playing == state = "Playing"

controls_enabled == state \in {"Ready", "Playing"}

toolbar_enabled == state \in {"Ready", "Playing"}

\* An InputLog: its metadata, the input ids of its mappings, its events.
InputLog(frame_count, target_fps, mappings, events) ==
    [frame_count |-> frame_count, target_fps |-> target_fps,
     mappings |-> mappings, events |-> events]

\* The files that are opened map two inputs and hold two events per frame:
\* button 1 is Pressed in the even frames and Released in the odd ones, and
\* axis 2 has a value in every frame.
LogMappings == <<1, 2>>

LogEvents(frame_count) ==
    [i \in 1..(2 * frame_count) |->
        LET frame == (i - 1) \div 2
        IN  IF i % 2 = 1
            THEN InputEvent(frame, 1, "Button", IF frame % 2 = 0 THEN "Pressed" ELSE "Released")
            ELSE InputEvent(frame, 2, "Axis1D", "Released")]

Log(frame_count, target_fps) ==
    InputLog(frame_count, target_fps, LogMappings, LogEvents(frame_count))

\* The frame rates of the logs that are opened.
LogFps == {0, 60}

\* Result<InputLog, String> of parsing the picked file.
Ok(l) == [ok |-> TRUE, log |-> l]

Err == [ok |-> FALSE, log |-> Log(0, 0)]

\* The lengths of the logs that are opened: empty, and the two longest.
LogLengths == {0, MaxFrames - 1, MaxFrames}

ParseResults == {Err} \cup { Ok(Log(n, fps)) : n \in LogLengths, fps \in LogFps }

ControlAction(type, value) == [type |-> type, value |-> value]

\* Option<ControlAction>::None: no key pressed, nothing clicked.
NoControl == ControlAction("None", Unit)

\* The actions of the keyboard shortcuts: Space, ArrowLeft, ArrowRight, Home, End.
KeyActions ==
    { ControlAction(t, Unit) :
        t \in {"TogglePlayPause", "PreviousFrame", "NextFrame", "GoToStart", "GoToEnd"} }

\* The actions of the controls panel: the buttons, the frame counter, whose
\* DragValue ranges over the frames of the log, and the speed presets.
ControlActions ==
    KeyActions
      \cup { ControlAction("SeekToFrame", frame) : frame \in 0..saturating_sub(total_frames, 1) }
      \cup { ControlAction("SetSpeed", SPEED_OPTIONS[i]) : i \in DOMAIN SPEED_OPTIONS }

\* InputLogViewerApp::new().
InitApp ==
    /\ NewPlayback
    /\ ViewIdle
    /\ NewSession
    /\ total_frames = 0
    /\ state = "NoFileLoaded"
    /\ log = None
    /\ config_current_frame = 0
    /\ pc = "update"
    /\ played = 0

\* A step of the host that calls no operation of the clock.
NoCall == UNCHANGED <<total_frames, clock, now, call, pre_frame, view, session>>

\* StatusMessage: its kind and the time it was created at.
StatusMessage(kind, created_at) == [kind |-> kind, created_at |-> created_at]

\* StatusMessage::DISPLAY_DURATION, 5 s, in clock ticks.
DISPLAY_DURATION == 5 * TicksPerSecond

\* StatusMessage::is_visible
message_is_visible(msg) == now - msg.created_at < DISPLAY_DURATION

\* The path of the picked file: file 1 parses, file 2 does not.
PickedPath(parse_result) == IF parse_result.ok THEN 1 ELSE 2

\* load_file after parsing.  A log replaces the loaded one: the filter is
\* initialized from it, the search state is reset, the path is stored, the
\* state becomes Ready and a success message is shown.  An error sets the
\* Error state (AppError::recoverable) and shows an error message.
load_file(parse_result) ==
    /\ IF parse_result.ok
       THEN /\ visible_ids' = mapping_ids(parse_result.log.mappings)
            /\ initialized' = TRUE
            /\ UNCHANGED <<show_button, show_axis1d, show_axis2d>>
            /\ selected_input_index' = 0
            /\ selected_state_index' = 0
            /\ matches' = <<>>
            /\ current_index' = None
            /\ has_searched' = FALSE
            /\ log' = Some(parse_result.log)
            /\ total_frames' = parse_result.log.frame_count
            /\ loaded_file_path' = Some(PickedPath(parse_result))
            /\ state' = "Ready"
            /\ status_message' = Some(StatusMessage("Success", now))
       ELSE /\ state' = "Error"
            /\ status_message' = Some(StatusMessage("Error", now))
            /\ UNCHANGED <<log, total_frames, loaded_file_path, filter, search>>
    /\ call' = <<"load_file", Unit, IF parse_result.ok THEN "Ok" ELSE "Err">>
    /\ pre_frame' = current_frame
    /\ UNCHANGED <<clock, now, view, recent_files>>

\* clear_error that always goes back to NoFileLoaded.
clear_error_to_no_file ==
    /\ state' = "NoFileLoaded"
    /\ UNCHANGED <<log, search>>
    /\ NoCall

clear_error ==
    /\ state' = IF log # None THEN "Ready" ELSE "NoFileLoaded"
    /\ UNCHANGED <<log, search>>
    /\ NoCall

\* render_status_message: a message that is no longer visible, or whose
\* dismiss button is clicked, is removed, and with it the Error state.
render_status_message(dismiss_clicked) ==
    IF /\ status_message # None
       /\ ~message_is_visible(status_message[1]) \/ dismiss_clicked
    THEN /\ status_message' = None
         /\ IF state = "Error" THEN clear_error
            ELSE UNCHANGED <<state, log, search>> /\ NoCall
    ELSE UNCHANGED <<state, log, search, status_message>> /\ NoCall

\* perform_search: the query is built from the selection of the dialog, the
\* matches of the loaded log become the result, and playback seeks to the
\* match closest to the current frame.
perform_search ==
    IF log = None \/ selected_input_index >= Len(log[1].mappings)
    THEN UNCHANGED search /\ NoCall
    ELSE LET input_id == log[1].mappings[selected_input_index + 1]
             button_state == CASE selected_state_index = 1 -> Some("Pressed")
                               [] selected_state_index = 2 -> Some("Released")
                               [] OTHER -> None
             found == find_matches_value(log[1].events, SearchQuery(Some(input_id), None, button_state))
             index == unwrap_or(position(found, current_frame), 0)
         IN  /\ matches' = found
             /\ has_searched' = TRUE
             /\ UNCHANGED <<selected_input_index, selected_state_index>>
             /\ IF found = <<>>
                THEN current_index' = None /\ NoCall
                ELSE current_index' = Some(index) /\ set_frame(found[index + 1])

\* What the user does in the search dialog in one frame: selects an input
\* or a state, clicks Search, Clear, Prev or Next, or closes the dialog.
DialogInput(type, index) == [type |-> type, index |-> index]

\* The kind of the selected input: that of its first event, Button when it
\* has none.
selected_kind ==
    IF log = None \/ selected_input_index >= Len(log[1].mappings) THEN "Button"
    ELSE LET mapping_id == log[1].mappings[selected_input_index + 1]
             found == SelectSeq(log[1].events, LAMBDA e : e.id = mapping_id)
         IN  IF found = <<>> THEN "Button" ELSE found[1].kind

\* SearchState::clear_results
clear_results ==
    /\ matches' = <<>>
    /\ current_index' = None
    /\ has_searched' = FALSE

\* render_search_dialog: the selection changes and the results are cleared;
\* or a search is performed; or the results are cleared; or Prev or Next
\* moves in the results and playback seeks to the frame returned.
render_search_dialog(inp) ==
    CASE inp.type = "SelectInput" ->
            /\ log # None /\ inp.index < Len(log[1].mappings)
            /\ selected_input_index' = inp.index
            /\ UNCHANGED selected_state_index
            /\ clear_results
            /\ NoCall
      [] inp.type = "SelectState" ->
            /\ log # None /\ inp.index < 3 /\ selected_kind = "Button"
            /\ selected_state_index' = inp.index
            /\ UNCHANGED selected_input_index
            /\ clear_results
            /\ NoCall
      [] inp.type = "Search" -> log # None /\ perform_search
      [] inp.type = "Clear" ->
            /\ log # None /\ has_searched
            /\ clear_results
            /\ UNCHANGED <<selected_input_index, selected_state_index>>
            /\ NoCall
      [] inp.type = "Close" ->
            /\ clear_results
            /\ UNCHANGED <<selected_input_index, selected_state_index>>
            /\ NoCall
      [] inp.type = "Prev" ->
            /\ log # None /\ has_searched /\ matches # <<>>
            /\ current_index' = Some(prev_index(matches, current_index))
            /\ UNCHANGED <<matches, has_searched, selected_input_index, selected_state_index>>
            /\ set_frame(matches[prev_index(matches, current_index) + 1])
      [] inp.type = "Next" ->
            /\ log # None /\ has_searched /\ matches # <<>>
            /\ current_index' = Some(next_index(matches, current_index))
            /\ UNCHANGED <<matches, has_searched, selected_input_index, selected_state_index>>
            /\ set_frame(matches[next_index(matches, current_index) + 1])

\* TogglePlayPause that starts playback from every state but Playing.
handle_control_action_from_any_state(a) ==
    CASE a.type = "TogglePlayPause" ->
            IF is_playing THEN state' = "Ready" /\ NoCall
            ELSE reset_timing /\ state' = "Playing"
      [] a.type = "GoToStart" -> go_to_start /\ UNCHANGED state
      [] a.type = "PreviousFrame" -> previous /\ UNCHANGED state
      [] a.type = "NextFrame" -> advance /\ UNCHANGED state
      [] a.type = "GoToEnd" -> go_to_end /\ UNCHANGED state
      [] a.type = "SetSpeed" -> set_speed(a.value) /\ UNCHANGED state
      [] a.type = "SeekToFrame" -> set_frame(a.value) /\ UNCHANGED state

\* TogglePlayPause that starts playback without reset_timing.
handle_control_action_without_reset(a) ==
    CASE a.type = "TogglePlayPause" ->
            IF is_playing THEN state' = "Ready" /\ NoCall
            ELSE IF state = "Ready" THEN state' = "Playing" /\ NoCall
            ELSE UNCHANGED state /\ NoCall
      [] a.type = "GoToStart" -> go_to_start /\ UNCHANGED state
      [] a.type = "PreviousFrame" -> previous /\ UNCHANGED state
      [] a.type = "NextFrame" -> advance /\ UNCHANGED state
      [] a.type = "GoToEnd" -> go_to_end /\ UNCHANGED state
      [] a.type = "SetSpeed" -> set_speed(a.value) /\ UNCHANGED state
      [] a.type = "SeekToFrame" -> set_frame(a.value) /\ UNCHANGED state

handle_control_action(a) ==
    CASE a.type = "TogglePlayPause" ->
            IF is_playing THEN state' = "Ready" /\ NoCall
            ELSE IF state = "Ready" THEN reset_timing /\ state' = "Playing"
            ELSE UNCHANGED state /\ NoCall
      [] a.type = "GoToStart" -> go_to_start /\ UNCHANGED state
      [] a.type = "PreviousFrame" -> previous /\ UNCHANGED state
      [] a.type = "NextFrame" -> advance /\ UNCHANGED state
      [] a.type = "GoToEnd" -> go_to_end /\ UNCHANGED state
      [] a.type = "SetSpeed" -> set_speed(a.value) /\ UNCHANGED state
      [] a.type = "SeekToFrame" -> set_frame(a.value) /\ UNCHANGED state

\* update that advances in every tick of a playing log, whatever
\* should_advance returns.
update_playback_unconditional ==
    /\ pc = "update"
    /\ played' = 0
    /\ IF is_playing /\ log # None
       THEN /\ should_advance(log[1].target_fps)
            /\ pc' = "advance"
       ELSE /\ NoCall
            /\ pc' = "shortcuts"
    /\ UNCHANGED <<state, log, config_current_frame, status_message, search>>

\* update, the playback block: should_advance is asked only while playing
\* with a log.
update_playback ==
    /\ pc = "update"
    /\ played' = 0
    /\ IF is_playing /\ log # None
       THEN /\ should_advance(log[1].target_fps)
            /\ pc' = IF should_advance_value(log[1].target_fps) = Returned(TRUE)
                     THEN "advance" ELSE "shortcuts"
       ELSE /\ NoCall
            /\ pc' = "shortcuts"
    /\ UNCHANGED <<state, log, config_current_frame, status_message, search>>

\* update_advance that leaves the application Playing when advance returns
\* false.
update_advance_without_stop ==
    /\ pc = "advance"
    /\ advance
    /\ UNCHANGED state
    /\ played' = played + 1
    /\ pc' = "shortcuts"
    /\ UNCHANGED <<log, config_current_frame, status_message, search>>

\* update, the playback block: advance after should_advance returned true;
\* playback stops when advance returns false.
update_advance ==
    /\ pc = "advance"
    /\ advance
    /\ state' = IF ret' = FALSE THEN "Ready" ELSE state
    /\ played' = played + 1
    /\ pc' = "shortcuts"
    /\ UNCHANGED <<log, config_current_frame, status_message, search>>

\* update, the keyboard shortcuts: none pressed (or Ctrl+F, which opens the
\* search dialog), or a playback shortcut while the controls are enabled.
update_shortcuts(a) ==
    /\ pc = "shortcuts"
    /\ IF a = NoControl
       THEN UNCHANGED state /\ NoCall
       ELSE controls_enabled /\ handle_control_action(a)
    /\ pc' = "sync"
    /\ UNCHANGED <<log, config_current_frame, played, status_message, search>>

\* update: timeline_config.current_frame = playback.current_frame.
update_sync ==
    /\ pc = "sync"
    /\ config_current_frame' = current_frame
    /\ pc' = "toolbar"
    /\ NoCall
    /\ UNCHANGED <<state, log, played, status_message, search>>

\* What the user does in the toolbar in one frame: nothing, open a file
\* (which parses or not), dismiss the status message, or use the search
\* dialog.
ToolbarInput(type, parse_result, dialog) ==
    [type |-> type, parse_result |-> parse_result, dialog |-> dialog]

NoToolbarInput == ToolbarInput("None", Err, DialogInput("None", 0))

\* The toolbar with the search dialog and the filter popup closed.
ToolbarInputs ==
    { ToolbarInput("OpenFile", r, DialogInput("None", 0)) : r \in ParseResults }
      \cup {ToolbarInput("Dismiss", Err, DialogInput("None", 0))}

\* render_toolbar: the Open File button, then the status message, then the
\* search dialog, which is shown while the toolbar is enabled.
render_toolbar(inp) ==
    /\ pc = "toolbar"
    /\ CASE inp.type = "None" -> render_status_message(FALSE)
         [] inp.type = "OpenFile" -> load_file(inp.parse_result)
         [] inp.type = "Dismiss" ->
               /\ status_message # None
               /\ message_is_visible(status_message[1])
               /\ render_status_message(TRUE)
         [] inp.type = "Dialog" ->
               /\ toolbar_enabled
               /\ render_search_dialog(inp.dialog)
               /\ UNCHANGED <<state, log>>
               /\ status_message' =
                     IF status_message # None /\ ~message_is_visible(status_message[1])
                     THEN None ELSE status_message
    /\ pc' = "controls"
    /\ UNCHANGED <<config_current_frame, played>>

\* render_controls: the action of the controls panel, if any, is handled.
render_controls(a) ==
    /\ pc = "controls"
    /\ IF a = NoControl
       THEN UNCHANGED state /\ NoCall
       ELSE controls_enabled /\ handle_control_action(a)
    /\ pc' = "timeline"
    /\ UNCHANGED <<log, config_current_frame, played, status_message, search>>

\* render_timeline: the timeline is drawn from timeline_config; the action
\* render returns is dropped.
render_timeline ==
    /\ pc = "timeline"
    /\ pc' = "update"
    /\ NoCall
    /\ UNCHANGED <<state, log, config_current_frame, played, status_message, search>>

NextApp ==
    \/ Tick
    \/ update_playback
    \/ update_advance
    \/ \E a \in KeyActions \cup {NoControl} : update_shortcuts(a)
    \/ update_sync
    \/ \E inp \in ToolbarInputs \cup {NoToolbarInput} : render_toolbar(inp)
    \/ \E a \in ControlActions \cup {NoControl} : render_controls(a)
    \/ render_timeline

SpecApp == InitApp /\ [][NextApp]_vars

----
\* Playback left to itself: the application is Playing, update() runs again
\* and again (it requests a repaint while playing) with no input from the
\* user, and time keeps passing.

\* The longest elapsed time told apart, in clock ticks: the longest frame
\* duration, at 60 fps and speed 0.25, is 6.67 ticks.
MaxElapsed == 7

\* Time passes.  Instants count from a sliding origin: once now is at
\* MaxElapsed the origin moves on instead, and the elapsed time since
\* last_update grows up to MaxElapsed.
TickPlay ==
    /\ ~Crashed
    /\ IF now < MaxElapsed
       THEN now' = now + 1 /\ UNCHANGED last_update
       ELSE now' = now /\ last_update' = saturating_sub(last_update, 1)
    /\ UNCHANGED <<current_frame, speed, loop_enabled, range_start, range_end>>
    /\ UNCHANGED <<total_frames, call, pre_frame, view, app, session>>

\* The application just after TogglePlayPause started playback of a log:
\* reset_timing was called and the rest of the clock is as the session left
\* it (loop_enabled is a public field of PlaybackState).
InitPlay ==
    /\ ViewIdle
    /\ \E n \in Frames, fps \in LogFps :
          /\ log = Some(Log(n, fps))
          /\ total_frames = n
    /\ NewSearch
    /\ visible_ids = mapping_ids(LogMappings)
    /\ show_button = TRUE
    /\ show_axis1d = TRUE
    /\ show_axis2d = TRUE
    /\ initialized = TRUE
    /\ recent_files = <<>>
    /\ loaded_file_path = Some(1)
    /\ status_message = None
    /\ state = "Playing"
    /\ current_frame \in Frames
    /\ speed \in { SPEED_OPTIONS[i] : i \in DOMAIN SPEED_OPTIONS }
    /\ loop_enabled \in BOOLEAN
    /\ range_start = None
    /\ range_end = None
    /\ last_update = 0
    /\ now = 0
    /\ call = <<"reset_timing", Unit, Unit>>
    /\ pre_frame = current_frame
    /\ config_current_frame = current_frame
    /\ pc = "timeline"
    /\ played = 0

\* One step of update() in which the user does nothing.
UpdateStep ==
    \/ update_playback
    \/ update_advance
    \/ update_shortcuts(NoControl)
    \/ update_sync
    \/ render_toolbar(NoToolbarInput)
    \/ render_controls(NoControl)
    \/ render_timeline

NextPlay ==
    \/ TickPlay
    \/ UpdateStep

\* update() requests a repaint while playing, so that it runs again (every
\* step of it moves pc); and time keeps passing.
SpecPlay ==
    /\ InitPlay
    /\ [][NextPlay]_vars
    /\ WF_pc(UpdateStep)
    /\ WF_<<now, last_update>>(TickPlay)

----
\* The host together with the operations of PlaybackState it does not call
\* itself: another owner of the session calls them between two updates.

\* The ranges passed to set_range.
HostRanges == {<<Some(1), Some(2)>>}

\* A call made between two update() calls.
BetweenUpdates == pc = "update" /\ UNCHANGED app

NextHost ==
    \/ NextApp
    \/ BetweenUpdates /\ mark_advanced
    \/ BetweenUpdates /\ \E r \in HostRanges : set_range(r[1], r[2])
    \/ BetweenUpdates /\ clear_range
    \/ BetweenUpdates /\ \E b \in BOOLEAN : set_loop_enabled(b)
    \/ BetweenUpdates /\ call_is_at_start
    \/ BetweenUpdates /\ call_is_at_end
    \/ BetweenUpdates /\ call_next_speed_preset
    \/ BetweenUpdates /\ call_prev_speed_preset

SpecHost == InitApp /\ [][NextHost]_vars

----
\* find_matches run on logs of any events: the events of a log are in the
\* order of the file, which need not be the order of their frames.

\* The longest list of events told apart.
MaxEvents == 3

\* Button 1 pressed or released and axis 2 moved, in frame 1 or frame 2.
EventExamples ==
    { InputEvent(frame, 1, "Button", st) : frame \in {1, 2}, st \in {"Pressed", "Released"} }
      \cup { InputEvent(frame, 2, "Axis1D", "Released") : frame \in {1, 2} }

EventLists == SeqsUpTo(EventExamples, MaxEvents)

\* The queries: every combination of an id, a kind and a state criterion,
\* each present or not.
Queries ==
    { SearchQuery(id, kind, st) :
        id \in {None, Some(1), Some(2)},
        kind \in {None, Some("Button"), Some("Axis1D")},
        st \in {None, Some("Pressed")} }

\* A log of three frames is loaded and shown.
InitFind ==
    /\ NewPlayback
    /\ ViewIdle
    /\ NewSearch
    /\ \E events \in EventLists : log = Some(InputLog(3, 60, LogMappings, events))
    /\ total_frames = 3
    /\ visible_ids = mapping_ids(LogMappings)
    /\ show_button = TRUE
    /\ show_axis1d = TRUE
    /\ show_axis2d = TRUE
    /\ initialized = TRUE
    /\ recent_files = <<>>
    /\ loaded_file_path = Some(1)
    /\ status_message = None
    /\ state = "Ready"
    /\ config_current_frame = 0
    /\ pc = "idle"
    /\ played = 0

NextFind == \E q \in Queries : find_matches(q)

SpecFind == InitFind /\ [][NextFind]_vars

----
\* The handlers of the application called one by one, in any state and in
\* any order, while the status message ages: files are opened, control
\* actions are handled, the status message is rendered, the search dialog
\* and the filter are used.

\* The number of times the display duration of a message passes.
MaxWaits == 1

\* The picked file does not parse, or holds one of the two longest logs.
LoadResults == {Err, Ok(Log(MaxFrames - 1, 60)), Ok(Log(MaxFrames, 60))}

\* The control actions handled.
LoadActions ==
    { ControlAction(t, Unit) : t \in {"TogglePlayPause", "NextFrame", "GoToEnd"} }

\* The clicks in the search dialog.
LoadDialogInputs ==
    {DialogInput("SelectInput", 1)}
      \cup { DialogInput(t, 0) : t \in {"Search", "Next", "Close"} }

\* As much time passes as a status message is displayed for.
Wait ==
    /\ now < MaxWaits * DISPLAY_DURATION
    /\ now' = now + DISPLAY_DURATION
    /\ UNCHANGED <<total_frames, clock, call, pre_frame, view, app, session>>

call_load_file(parse_result) ==
    /\ load_file(parse_result)
    /\ UNCHANGED <<config_current_frame, pc, played>>

call_handle_control_action(a) ==
    /\ handle_control_action(a)
    /\ UNCHANGED <<log, config_current_frame, pc, played, status_message, search>>

call_render_status_message(dismiss_clicked) ==
    /\ render_status_message(dismiss_clicked)
    /\ UNCHANGED <<config_current_frame, pc, played>>

\* The search dialog is rendered while the toolbar is enabled.
call_render_search_dialog(inp) ==
    /\ toolbar_enabled
    /\ render_search_dialog(inp)
    /\ UNCHANGED <<state, log, config_current_frame, pc, played, status_message>>

\* The checkbox of an input in the filter popup, which is rendered while the
\* toolbar is enabled.
call_set_id_visible(id, visible) ==
    /\ toolbar_enabled
    /\ set_id_visible(id, visible)

NextLoad ==
    \/ Tick
    \/ Wait
    \/ \E parse_result \in LoadResults : call_load_file(parse_result)
    \/ \E a \in LoadActions : call_handle_control_action(a)
    \/ \E dismiss_clicked \in BOOLEAN : call_render_status_message(dismiss_clicked)
    \/ \E inp \in LoadDialogInputs : call_render_search_dialog(inp)
    \/ \E visible \in BOOLEAN : call_set_id_visible(1, visible)

SpecLoad == InitApp /\ [][NextLoad]_vars

----
\* The quantities the properties are stated in.

\* range_start, or 0 when no start is set.
StartOrZero == IF range_start = None THEN 0 ELSE range_start[1]

\* The last frame of the log; frame 0 for an empty log.
LastFrame == IF total_frames = 0 THEN 0 ELSE total_frames - 1

\* range_end capped at the last frame, or the last frame when no end is set.
CappedEnd ==
    IF range_end = None THEN LastFrame
    ELSE IF range_end[1] < LastFrame THEN range_end[1] ELSE LastFrame

\* A step that calls the operation `name` (time does not pass inside a call).
IsCall(name) == op' = name /\ now' = now

----
\* C1: after any sequence of operations starting from new(), current_frame
\* is in [0, total_frames-1] when total_frames > 0 and is 0 when
\* total_frames = 0, whatever range was passed to set_range.
C1_FrameInBounds ==
    IF total_frames > 0
    THEN current_frame >= 0 /\ current_frame <= total_frames - 1
    ELSE current_frame = 0

\* C2: advance called at effective_end with loop_enabled returns true and
\* sets current_frame to effective_start (0 without a range start,
\* range_start with one).
C2_AdvanceWrapsToStart ==
    (op = "advance" /\ loop_enabled /\ pre_frame = CappedEnd)
        => (ret = TRUE /\ current_frame = StartOrZero)

C2_Witness ==
    /\ op = "advance"
    /\ loop_enabled
    /\ range_start # None
    /\ range_end # None
    /\ range_start[1] > 0
    /\ range_start[1] < range_end[1]
    /\ range_end[1] < total_frames
    /\ pre_frame = range_end[1]
    /\ current_frame = range_start[1]
    /\ ret = TRUE

\* C3: advance called at effective_end with loop_enabled false returns
\* false and leaves current_frame and last_update unchanged, at every call.
C3_AdvanceStopsAtEnd ==
    [][(IsCall("advance") /\ ~loop_enabled /\ current_frame = CappedEnd)
          => (ret' = FALSE /\ current_frame' = current_frame
              /\ last_update' = last_update)]_vars

C3_Witness ==
    /\ op = "advance"
    /\ ret = FALSE
    /\ ~loop_enabled
    /\ total_frames > 1
    /\ pre_frame = total_frames - 1
    /\ current_frame = pre_frame
    /\ last_update < now

\* C4: previous decrements current_frame by exactly 1 above effective_start;
\* at effective_start it jumps to effective_end when loop_enabled and leaves
\* current_frame unchanged otherwise.
C4_PreviousMirrorsAdvance ==
    op = "previous" =>
        /\ pre_frame > StartOrZero => current_frame = pre_frame - 1
        /\ (pre_frame = StartOrZero /\ loop_enabled) => current_frame = CappedEnd
        /\ (pre_frame = StartOrZero /\ ~loop_enabled) => current_frame = pre_frame

C4_Witness ==
    /\ op = "previous"
    /\ loop_enabled
    /\ range_start # None
    /\ range_end # None
    /\ pre_frame = range_start[1]
    /\ range_start[1] < range_end[1]
    /\ range_end[1] < total_frames
    /\ current_frame = range_end[1]

\* C5: set_frame(frame, total_frames) sets current_frame to
\* min(frame, total_frames-1) when total_frames > 0 and to 0 when
\* total_frames = 0.
C5_SetFrameClamps ==
    op = "set_frame" =>
        IF total_frames > 0
        THEN current_frame = (IF arg < total_frames - 1 THEN arg ELSE total_frames - 1)
        ELSE current_frame = 0

C5_Witness ==
    /\ op = "set_frame"
    /\ total_frames > 1
    /\ arg >= total_frames
    /\ pre_frame = 0
    /\ current_frame = total_frames - 1

\* C6: go_to_start sets current_frame to range_start or 0; go_to_end sets it
\* to range_end or the last frame, capped at the last frame of the log.
C6_GoToStartAndEnd ==
    /\ op = "go_to_start" => current_frame = StartOrZero
    /\ op = "go_to_end" => current_frame = CappedEnd

C6_Witness ==
    /\ op = "go_to_end"
    /\ total_frames > 1
    /\ range_end # None
    /\ range_end[1] >= total_frames
    /\ pre_frame = 0
    /\ current_frame = total_frames - 1

\* C7: with total_frames = 0, advance and previous leave the whole clock
\* (current_frame and last_update included) unchanged.
C7_EmptyLogNoOp ==
    [][(total_frames = 0 /\ (IsCall("advance") \/ IsCall("previous")))
          => clock' = clock]_vars

\* C8: is_at_start is true exactly when current_frame <= effective_start,
\* is_at_end exactly when current_frame >= effective_end, and with
\* total_frames = 0 both are true in every reachable state.
C8_BoundaryPredicates ==
    /\ op = "is_at_start" => (ret <=> current_frame <= StartOrZero)
    /\ op = "is_at_end" => (ret <=> current_frame >= CappedEnd)
    /\ (total_frames = 0 /\ op \in {"is_at_start", "is_at_end"}) => ret = TRUE

\* C9: after any set_speed calls, 0.1 <= speed <= 10.0; an argument inside
\* the range is stored unchanged, one below becomes 0.1, one above 10.0.
C9_SpeedClamped ==
    /\ ~speed.nan /\ speed.x >= 10 /\ speed.x <= 1000
    /\ op = "set_speed" =>
        /\ (~arg.nan /\ arg.x >= 10 /\ arg.x <= 1000) => speed = arg
        /\ (~arg.nan /\ arg.x < 10) => speed = F32(10)
        /\ (~arg.nan /\ arg.x > 1000) => speed = F32(1000)

\* The presets, in hundredths.
PresetValues == {25, 50, 100, 200, 400}

\* The presets strictly greater than / strictly less than a speed
\* (none for NaN, which compares with nothing).
PresetsAbove(s) == IF s.nan THEN {} ELSE {p \in PresetValues : p > s.x}

PresetsBelow(s) == IF s.nan THEN {} ELSE {p \in PresetValues : p < s.x}

SmallestOf(S) == CHOOSE p \in S : \A q \in S : p <= q

LargestOf(S) == CHOOSE p \in S : \A q \in S : p >= q

RECURSIVE NextTimes(_, _)
NextTimes(s, n) == IF n = 0 THEN s ELSE NextTimes(next_speed_preset(s), n - 1)

RECURSIVE PrevTimes(_, _)
PrevTimes(s, n) == IF n = 0 THEN s ELSE PrevTimes(prev_speed_preset(s), n - 1)

\* C10: next_speed_preset returns the smallest preset strictly greater than
\* the speed, or 4.0 when there is none; prev_speed_preset the largest
\* preset strictly less, or 0.25; so a speed on a preset moves to the
\* adjacent one, and repeated application reaches 4.0 (0.25) and stays.
C10_SpeedPresets ==
    /\ op = "next_speed_preset" =>
          ret = (IF PresetsAbove(speed) = {} THEN F32(400)
                 ELSE F32(SmallestOf(PresetsAbove(speed))))
    /\ op = "prev_speed_preset" =>
          ret = (IF PresetsBelow(speed) = {} THEN F32(25)
                 ELSE F32(LargestOf(PresetsBelow(speed))))
    /\ (~speed.nan /\ speed.x \in PresetValues /\ speed.x < 400)
          => FGt(next_speed_preset(speed), speed)
    /\ (~speed.nan /\ speed.x \in PresetValues /\ speed.x > 25)
          => FLt(prev_speed_preset(speed), speed)
    /\ NextTimes(speed, 5) = F32(400)
    /\ NextTimes(speed, 6) = F32(400)
    /\ PrevTimes(speed, 5) = F32(25)
    /\ PrevTimes(speed, 6) = F32(25)

C10_Witness ==
    /\ op = "next_speed_preset"
    /\ speed = F32(100)
    /\ ret = F32(200)

\* C11: should_advance(target_fps) returns false when target_fps = 0 or
\* speed <= 0, otherwise true exactly when the time since last_update is at
\* least 1/(target_fps * speed) seconds; it changes no field of the clock.
C11_ShouldAdvance ==
    [][IsCall("should_advance") =>
          /\ clock' = clock
          /\ ret' = Returned(
                IF arg' = 0 \/ (~speed.nan /\ speed.x <= 0) THEN FALSE
                ELSE /\ ~speed.nan
                     /\ (now - last_update) * arg' * speed.x >= 10000)]_vars

----
\* The viewport.

\* The render call returned `action` and the host has not applied it yet: the
\* viewport fields are those the handler read.
Resolved == phase = "apply"

\* C12: every Zoom action carries visible_frames in [10, 10000] and
\* scroll_offset in [0, config_total_frames - visible_frames] for its new
\* visible_frames (0 when config_total_frames < visible_frames).
C12_ZoomInRange ==
    action.type = "Zoom" =>
        /\ action.visible_frames >= MIN_VISIBLE_FRAMES
        /\ action.visible_frames <= MAX_VISIBLE_FRAMES
        /\ action.scroll_offset >= 0
        /\ action.scroll_offset <=
              (IF config_total_frames < action.visible_frames THEN 0
               ELSE config_total_frames - action.visible_frames)

\* A zoom out to the widest level whose anchored offset lay beyond the new
\* max_scroll and was cut to it.
C12_Witness ==
    /\ Resolved
    /\ action.type = "Zoom"
    /\ action.visible_frames = MAX_VISIBLE_FRAMES
    /\ config_total_frames > MAX_VISIBLE_FRAMES
    /\ action.scroll_offset = config_total_frames - MAX_VISIBLE_FRAMES
    /\ scroll_offset > action.scroll_offset
    /\ input.x = 0

\* Frame positions under the pointer of the last input, in units of 1/width of
\* a frame: scroll_offset + x / frame_width, times width.
FrameUnderPointerBefore == scroll_offset * width + input.x * visible_frames

FrameUnderPointerAfter ==
    action.scroll_offset * width + input.x * action.visible_frames

\* The offset that keeps the frame under the pointer in place,
\* frame_under_mouse - mouse_offset_x / new_frame_width, times width.
AnchoredOffset == FrameUnderPointerBefore - input.x * action.visible_frames

\* The anchored offset lies within [0, max_scroll] of the new zoom level, so
\* that neither .max(0.0) nor .min(max_scroll) changes it.
OffsetNotClamped ==
    /\ AnchoredOffset >= 0
    /\ AnchoredOffset <= max_scroll(action.visible_frames) * width

\* C13 (as stated): the frame under the pointer before a Zoom action and the
\* frame under the same pixel after it differ by less than one frame, for zoom
\* in and zoom out alike, including when the new scroll_offset is clamped.
C13_ZoomAnchor ==
    (Resolved /\ action.type = "Zoom" /\ input.area = "timeline") =>
        Abs(FrameUnderPointerBefore - FrameUnderPointerAfter) < width

\* C13 (amended): when the anchored offset lies within [0, max_scroll] of the
\* new zoom level, the frame under the pointer before a Zoom action and the
\* frame under the same pixel after it differ by at most one frame, for zoom
\* in and zoom out alike.
C13_ZoomAnchorUnclamped ==
    (Resolved /\ action.type = "Zoom" /\ input.area = "timeline"
       /\ OffsetNotClamped) =>
        Abs(FrameUnderPointerBefore - FrameUnderPointerAfter) <= width

\* A zoom out about the middle of the timeline that moves the offset back and
\* keeps the frame under the pointer.
C13_Witness ==
    /\ Resolved
    /\ action.type = "Zoom"
    /\ input.area = "timeline"
    /\ input.x = 500
    /\ action.visible_frames > visible_frames
    /\ OffsetNotClamped
    /\ action.scroll_offset > 0
    /\ action.scroll_offset < scroll_offset
    /\ action.scroll_offset < max_scroll(action.visible_frames)

\* The scenario of C14: a 100-frame log shown whole, and a zoom-in wheel event
\* with the pointer on the pixel where frame 50 begins.
ZoomInAtFrame50 ==
    /\ Resolved
    /\ config_total_frames = 100
    /\ visible_frames = 100
    /\ scroll_offset = 0
    /\ input.ev = "none"
    /\ input.ctrl
    /\ input.dy > 0
    /\ input.area = "timeline"
    /\ input.x * visible_frames = 50 * width

\* C14 (as stated): in that scenario the zoom halves visible_frames to about
\* 50 and sets scroll_offset so that frame 50 stays under the pixel within one
\* frame.
C14_ZoomInHalves ==
    ZoomInAtFrame50 =>
        /\ action.type = "Zoom"
        /\ Abs(2 * action.visible_frames - visible_frames) <= 10
        /\ Abs(FrameUnderPointerAfter - 50 * width) <= width

\* C14 (amended): in that scenario the zoom divides visible_frames by 1.15,
\* to 86, and sets scroll_offset to 7 or 6, so that frame 50 stays under the
\* pixel within one frame.
C14_ZoomInOneStep ==
    ZoomInAtFrame50 =>
        /\ action.type = "Zoom"
        /\ action.visible_frames = 86
        /\ action.scroll_offset \in {6, 7}
        /\ Abs(FrameUnderPointerAfter - 50 * width) <= width

C14_Witness ==
    /\ ZoomInAtFrame50
    /\ action = Zoom(86, 7)

\* A frame in which the wheel turns with Ctrl held, the pointer over the
\* timeline or the scrollbar and no drag under way.
ZoomStep ==
    /\ Resolved
    /\ input.ev = "none"
    /\ input.ctrl
    /\ input.dy # 0
    /\ input.area \in {"timeline", "scrollbar"}

ClampVisible(n) ==
    IF n < MIN_VISIBLE_FRAMES THEN MIN_VISIBLE_FRAMES
    ELSE IF n > MAX_VISIBLE_FRAMES THEN MAX_VISIBLE_FRAMES
    ELSE n

\* round(visible_frames / 1.15) for wheel up and round(visible_frames * 1.15)
\* for wheel down, clamped.
RoundedZoom ==
    ClampVisible(IF input.dy > 0 THEN (40 * visible_frames + 23) \div 46
                 ELSE (46 * visible_frames + 20) \div 40)

\* The same with the product truncated to a whole number.
TruncatedZoom ==
    ClampVisible(IF input.dy > 0 THEN (20 * visible_frames) \div 23
                 ELSE (23 * visible_frames) \div 20)

\* C15 (as stated): a zoom step computes visible_frames =
\* clamp(round(old / 1.15) for wheel up, round(old * 1.15) for wheel down, 10,
\* 10000), and there is no action exactly when this equals the old value.
C15_ZoomStepRounds ==
    ZoomStep =>
        IF RoundedZoom = visible_frames THEN action = NoAction
        ELSE action.type = "Zoom" /\ action.visible_frames = RoundedZoom

\* C15 (amended): a zoom step computes visible_frames = clamp(old / 1.15 for
\* wheel up, old * 1.15 for wheel down, truncated to a whole number, 10,
\* 10000), and there is no action exactly when this equals the old value: at
\* 10 on zoom in and at 10000 on zoom out.
C15_ZoomStepTruncates ==
    ZoomStep =>
        /\ IF TruncatedZoom = visible_frames THEN action = NoAction
           ELSE action.type = "Zoom" /\ action.visible_frames = TruncatedZoom
        /\ action = NoAction <=>
              \/ input.dy > 0 /\ visible_frames = MIN_VISIBLE_FRAMES
              \/ input.dy < 0 /\ visible_frames = MAX_VISIBLE_FRAMES

\* Zooming in from 11 frames: 11 / 1.15 = 9.57 truncates to 9, which the clamp
\* raises to 10.
C15_Witness ==
    /\ ZoomStep
    /\ visible_frames = 11
    /\ input.dy > 0
    /\ action.type = "Zoom"
    /\ action.visible_frames = MIN_VISIBLE_FRAMES

\* max(0, config_total_frames - visible_frames)
ScrollLimit ==
    IF config_total_frames > visible_frames THEN config_total_frames - visible_frames ELSE 0

\* C16: every Scroll action, from the scrollbar drag, the pan drag or the
\* wheel, has scroll_offset in [0, max(0, config_total_frames - visible_frames)], and
\* the viewport's scroll_offset is in that range after any sequence of applied
\* Scroll and Zoom actions.
C16_ScrollInRange ==
    /\ action.type = "Scroll" =>
          /\ action.by \in {"scrollbar", "pan", "wheel"}
          /\ action.scroll_offset >= 0
          /\ action.scroll_offset <= ScrollLimit
    /\ scroll_offset >= 0
    /\ scroll_offset <= ScrollLimit

\* A wheel turn that would pass the end of the log, after an earlier action
\* was applied: the Scroll action stops at max_scroll.
C16_Witness ==
    /\ Resolved
    /\ ticks = 2
    /\ action.type = "Scroll"
    /\ action.by = "wheel"
    /\ scroll_offset < ScrollLimit
    /\ scroll_offset - input.dy > ScrollLimit
    /\ action.scroll_offset = ScrollLimit

\* A frame of a drag over the timeline without Shift, and without wheel input.
PanStep ==
    /\ Resolved
    /\ input.ev \in {"start", "move"}
    /\ ~input.shift
    /\ input.area = "timeline"
    /\ input.dy = 0
    /\ input.dx = 0

\* scroll_offset - drag_delta.x / frame_width, in units of 1/width of a frame.
PanTarget == scroll_offset * width - input.ddx * visible_frames

\* PanTarget clamped to [0, max_scroll] and cut to whole frames; a target that
\* is a whole number of frames can come out one frame lower.
PanOffsets ==
    IF PanTarget <= 0 THEN {0}
    ELSE IF PanTarget > ScrollLimit * width THEN {ScrollLimit}
    ELSE IF PanTarget % width = 0
         THEN {PanTarget \div width - 1, PanTarget \div width}
         ELSE {PanTarget \div width}

\* C17: a pan drag converts the pixel delta to a frame delta and negates it
\* (a drag to the right never increases scroll_offset, a drag to the left never
\* decreases it), clamps the result to [0, max_scroll], and emits a Scroll only
\* when the clamped offset differs from the current scroll_offset.
C17_PanDrag ==
    PanStep =>
        /\ \E c \in PanOffsets :
              action = IF c = scroll_offset THEN NoAction ELSE Scroll("pan", c)
        /\ action.type = "Scroll" =>
              /\ action.scroll_offset # scroll_offset
              /\ action.scroll_offset <= ScrollLimit
              /\ input.ddx > 0 => action.scroll_offset < scroll_offset
              /\ input.ddx < 0 => action.scroll_offset > scroll_offset

\* A drag to the left whose frame delta passes the end of the log: the Scroll
\* stops at max_scroll.
C17_Witness ==
    /\ PanStep
    /\ input.ddx < 0
    /\ scroll_offset < ScrollLimit
    /\ PanTarget > ScrollLimit * width
    /\ action = Scroll("pan", ScrollLimit)

----
\* The resolver.

\* The gestures of the input of the last render call.  A drag gesture matches
\* in a frame in which it has something to do: the scrollbar thumb has room to
\* move, the pan moves the pointer and the offset.
ScrollbarDragMatches ==
    /\ input.ev \in {"start", "move"}
    /\ input.area = "scrollbar"
    /\ visible_frames < config_total_frames

SelectionDragMatches ==
    /\ input.shift
    /\ input.ev \in {"start", "move", "stop"}
    /\ input.area = "timeline"

PanDragMatches ==
    /\ ~input.shift
    /\ input.ev \in {"start", "move"}
    /\ input.area = "timeline"
    /\ \/ input.ddx > 0 /\ scroll_offset > 0
       \/ input.ddx < 0 /\ scroll_offset < ScrollLimit

ZoomWheelMatches ==
    /\ input.ctrl
    /\ input.dy # 0
    /\ input.area \in {"timeline", "scrollbar"}
    /\ \/ input.dy > 0 /\ visible_frames > MIN_VISIBLE_FRAMES
       \/ input.dy < 0 /\ visible_frames < MAX_VISIBLE_FRAMES

\* The wheel delta in frames: horizontal and vertical movement together when
\* Shift is held or the wheel moved horizontally, else the vertical movement.
WheelDelta ==
    IF input.shift \/ input.dx # 0 THEN -input.dx - input.dy ELSE -input.dy

PlainWheelMatches ==
    /\ ~(input.ctrl /\ input.dy # 0)
    /\ input.area \in {"timeline", "scrollbar"}
    /\ \/ WheelDelta > 0 /\ scroll_offset < ScrollLimit
       \/ WheelDelta < 0 /\ scroll_offset > 0

----
\* The drag gesture.

\* A frame of the drag whose first frame set `gesture`.
InGesture == Resolved /\ input.ev \in {"start", "move", "stop"}

\* C19: the gesture a drag is resolved as is fixed by where the drag began: a
\* drag that began in the timeline area never yields a scrollbar-mapped
\* Scroll, and a drag that began in the scrollbar track never yields a pan
\* Scroll or a selection action, wherever the pointer moves before release.
C19_GestureFixedByOrigin ==
    InGesture =>
        /\ gesture.origin = "timeline" => action.by # "scrollbar"
        /\ gesture.origin = "scrollbar" => action.by \notin {"pan", "selection"}

\* C20: an UpdateSelection or FinishSelection action is emitted only in a
\* gesture that earlier emitted StartSelection, which takes a drag-start event
\* with Shift held and the pointer in the timeline area.
C20_SelectionOnlyAfterStart ==
    /\ (Resolved /\ action.type = "StartSelection") =>
          input.ev = "start" /\ input.shift /\ input.area = "timeline"
    /\ (Resolved /\ action.type \in {"UpdateSelection", "FinishSelection"}) =>
          gesture.selecting

\* C21: once a gesture has emitted StartSelection it continues as a selection
\* until the release, and the release emits FinishSelection: no pan Scroll is
\* emitted in between, also when Shift is released before the button, and
\* FinishSelection is emitted also when the pointer is released outside the
\* timeline area.
C21_SelectionUntilRelease ==
    (InGesture /\ gesture.selecting) =>
        /\ action.by # "pan"
        /\ input.ev = "stop" => action = FinishSelection

\* C22: when the timeline area has zero width or total_frames = 0, none of
\* scrollbar drag, selection drag, pan drag, zoom or wheel scroll produces an
\* action.
C22_DegenerateNoAction ==
    (Resolved /\ (width = 0 \/ config_total_frames = 0)) => action = NoAction

\* The host applies the action of the last render call.
Applies == phase = "apply" /\ phase' = "render"

\* C23: applying selection actions keeps start <= end: StartSelection{s}
\* makes the Selection (s, s, dragging); after it every UpdateSelection{f}
\* makes it (min(s, f), max(s, f), dragging) from the original start frame s
\* and the latest f; FinishSelection only clears the dragging flag.
C23_SelectionNormalized ==
    [][Applies =>
        /\ selection' # None => selection'[1].start <= selection'[1].end
        /\ action.type = "StartSelection" =>
              selection' = Some(Selection(action.frame, action.frame, TRUE))
        /\ (action.type = "UpdateSelection" /\ selection_start # None) =>
              selection' = Some(Selection(min(selection_start[1], action.frame),
                                          max(selection_start[1], action.frame), TRUE))
        /\ (action.type = "FinishSelection" /\ selection # None) =>
              /\ selection'[1].dragging = FALSE
              /\ selection'[1].start = selection[1].start
              /\ selection'[1].end = selection[1].end
        /\ action.type # "StartSelection" => selection_start' = selection_start]_vars

\* A drag from frame 5 back to frame 2 gives (2, 5), and a later release
\* leaves the bounds.
C23_Witness ==
    /\ phase = "render"
    /\ action = FinishSelection
    /\ selection_start = Some(5)
    /\ selection = Some(Selection(2, 5, FALSE))

\* render_timeline is about to draw the timeline of the loaded log.
DrawsTimeline == pc = "timeline" /\ state \in {"Ready", "Playing"} /\ log # None

\* C24: within one update tick the order is advance clock, resolve and apply
\* actions, render, so that the timeline is rendered with
\* timeline_config.current_frame equal to playback.current_frame after every
\* clock advance, control action and search seek of that tick.
C24_RenderedFrameIsCurrent ==
    DrawsTimeline => config_current_frame = current_frame

\* C25: after every successful load_file the Clock is at its defaults (frame
\* 0, speed 1.0, loop on, no range) and the Viewport at its defaults
\* (scroll_offset 0, visible_frames 100).
C25_LoadResets ==
    (op = "load_file" /\ ret = "Ok") =>
        /\ current_frame = 0
        /\ speed = DEFAULT_SPEED
        /\ loop_enabled
        /\ range_start = None
        /\ range_end = None
        /\ scroll_offset = 0
        /\ visible_frames = DEFAULT_VISIBLE_FRAMES

\* C26: whenever a log is loaded, timeline_config.total_frames equals the
\* log's metadata.frame_count, after any sequence of loads and ticks.
C26_ConfigTotalIsFrameCount ==
    log # None => config_total_frames = log[1].frame_count

\* Playback has stopped at the end: advance returned false and the host made
\* the state Ready in the same step.
StoppedAtEnd ==
    /\ state = "Ready"
    /\ pc = "shortcuts"
    /\ op = "advance"
    /\ ret = FALSE

\* The state changes only when advance returned false in update().
OnlyHostStops ==
    [][state' # state =>
          /\ state = "Playing"
          /\ state' = "Ready"
          /\ pc = "advance"
          /\ op' = "advance"
          /\ ret' = FALSE
          /\ ~loop_enabled]_vars

PlaybackAdvances == pc = "advance" /\ pc' = "shortcuts"

\* C28: in one update tick playback-driven advancing calls advance at most
\* once and moves current_frame by at most one step, however much wall-clock
\* time has elapsed since the last-advance timestamp, and it advances only
\* when should_advance is true.
C28_OneStepPerTick ==
    [][/\ played' <= 1
       /\ played' # played => (played' = 0 \/ PlaybackAdvances)
       /\ PlaybackAdvances =>
             /\ IsCall("advance")
             /\ played' = played + 1
             /\ is_playing
             /\ op = "should_advance"
             /\ ret = Returned(TRUE)
             /\ ElapsedReached(log[1].target_fps, speed)
             /\ current_frame' \in {current_frame, current_frame + 1, effective_start}]_vars

\* At 60 fps and speed 4.0 one clock tick is more than two frame durations:
\* playback that started at frame 0 one tick ago is at frame 1.
C28_Witness ==
    /\ pc = "shortcuts"
    /\ op = "advance"
    /\ played = 1
    /\ is_playing
    /\ speed = F32(400)
    /\ log = Some(Log(3, 60))
    /\ pre_frame = 0
    /\ current_frame = 1
    /\ now = 1
    /\ last_update = 1

\* C29: the last-advance timestamp is changed only by advance (when it
\* returns true), mark_advanced and reset_timing; previous, set_frame,
\* go_to_start, go_to_end, set_speed, set_range, clear_range and the query
\* methods leave it unchanged; and reset_timing is called on every Ready to
\* Playing transition.
C29_StampedOnlyByAdvance ==
    [][/\ last_update' # last_update =>
             \/ op' = "advance" /\ ret' = TRUE
             \/ op' \in {"mark_advanced", "reset_timing"}
       /\ (op' = "advance" /\ call' # call /\ ret' = FALSE) => last_update' = last_update
       /\ (state = "Ready" /\ state' = "Playing") =>
             /\ op' = "reset_timing"
             /\ last_update' = now]_vars

\* Playback was started from Ready one tick after the log was stepped: the
\* timestamp is the time of the start.
C29_Witness ==
    /\ is_playing
    /\ op = "reset_timing"
    /\ last_update = 1
    /\ now = 1
    /\ current_frame = 1

\* C30: set_range(start, end) and clear_range() replace only range_start and
\* range_end: current_frame, speed, loop_enabled and the last-advance
\* timestamp are unchanged, even when current_frame lies outside the new
\* range.
C30_RangeOnly ==
    [][/\ IsCall("set_range") => (range_start' = arg'[1] /\ range_end' = arg'[2])
       /\ IsCall("clear_range") => (range_start' = None /\ range_end' = None)
       /\ (IsCall("set_range") \/ IsCall("clear_range")) =>
             /\ current_frame' = current_frame
             /\ speed' = speed
             /\ loop_enabled' = loop_enabled
             /\ last_update' = last_update]_vars

\* The range 2..3 was set one tick after the clock was stamped at frame 0,
\* which lies outside it.
C30_Witness ==
    /\ op = "set_range"
    /\ range_start = Some(2)
    /\ range_end = Some(3)
    /\ current_frame = 0
    /\ total_frames = 3
    /\ last_update = 0
    /\ now = 1

\* The last index of matches.
LastIndex == Len(matches) - 1

\* C31: on a non-empty result next() moves the current index forward by one,
\* wrapping from the last match to the first, prev() moves it back by one,
\* wrapping from the first match to the last, and each returns the frame at
\* the new index; on an empty result both return None and change nothing.
C31_CyclicNavigation ==
    [][/\ (IsCall("next") /\ matches # <<>> /\ current_index # None) =>
            /\ current_index' =
                  Some(IF current_index[1] = LastIndex THEN 0 ELSE current_index[1] + 1)
            /\ ret' = Some(matches[current_index'[1] + 1])
            /\ matches' = matches
       /\ (IsCall("prev") /\ matches # <<>> /\ current_index # None) =>
            /\ current_index' =
                  Some(IF current_index[1] = 0 THEN LastIndex ELSE current_index[1] - 1)
            /\ ret' = Some(matches[current_index'[1] + 1])
            /\ matches' = matches
       /\ ((IsCall("next") \/ IsCall("prev")) /\ matches = <<>>) =>
            /\ ret' = None
            /\ matches' = matches
            /\ current_index' = current_index]_vars

\* next() wrapped from the last of three matches, where only it leads to
\* index 0, to the first.
C31_Witness ==
    /\ op = "next"
    /\ matches = <<0, 2, 3>>
    /\ current_index = Some(0)
    /\ ret = Some(0)

\* The indices, counted from 0, of the matches at or after a frame.
IndicesAtOrAfter(frame) == {i \in 0..LastIndex : matches[i + 1] >= frame}

\* C32: set_closest_to_frame(frame) sets the current index to the first
\* match whose frame is >= frame, or to index 0 when there is none; on an
\* empty result it sets current_index to None.
C32_ClosestMatch ==
    op = "set_closest_to_frame" =>
        IF matches = <<>> THEN current_index = None
        ELSE IF IndicesAtOrAfter(arg) = {} THEN current_index = Some(0)
        ELSE /\ current_index # None
             /\ current_index[1] \in IndicesAtOrAfter(arg)
             /\ \A i \in IndicesAtOrAfter(arg) : current_index[1] <= i

\* Frame 1 was sought among the matches 0, 2, 3: the match at index 1, which
\* is frame 2, is current.
C32_Witness ==
    /\ op = "set_closest_to_frame"
    /\ arg = 1
    /\ matches = <<0, 2, 3>>
    /\ current_index = Some(1)

\* An event satisfies every criterion the query has; the state criterion
\* does not constrain events other than Button events.
Satisfies(q, event) ==
    /\ q.input_id \in {None, Some(event.id)}
    /\ q.kind \in {None, Some(event.kind)}
    /\ \/ q.button_state \in {None, Some(event.state)}
       \/ event.kind # "Button"

\* The frames of the loaded log that have an event satisfying a query.
FramesSatisfying(q) ==
    LET events == log[1].events
    IN  { events[i].frame : i \in { j \in 1..Len(events) : Satisfies(q, events[j]) } }

\* C33: find_matches(log, query) returns the frame numbers in strictly
\* ascending order without duplicates, exactly the frames that have at least
\* one event matching the query; a query with no criteria returns the empty
\* list.
C33_FindMatches ==
    op = "find_matches" =>
        /\ \A i \in 1..(Len(ret) - 1) : ret[i] < ret[i + 1]
        /\ arg = SearchQuery(None, None, None) => ret = <<>>
        /\ arg # SearchQuery(None, None, None) =>
              { ret[i] : i \in 1..Len(ret) } = FramesSatisfying(arg)

\* The axis moved in frame 2, then the button was pressed in frame 2 and
\* released in frame 1: a query for the Pressed state, which the axis event
\* satisfies whatever its state, finds the frames 2, 2 and none of frame 1,
\* and returns 2 once.
C33_Witness ==
    /\ op = "find_matches"
    /\ arg = SearchQuery(None, None, Some("Pressed"))
    /\ log[1].events = <<InputEvent(2, 2, "Axis1D", "Released"),
                         InputEvent(2, 1, "Button", "Pressed"),
                         InputEvent(1, 1, "Button", "Released")>>
    /\ ret = <<2>>

\* Whether the events of a kind are shown.
TypeShown(kind) ==
    CASE kind = "Button" -> show_button
      [] kind = "Axis1D" -> show_axis1d
      [] kind = "Axis2D" -> show_axis2d

\* The kinds whose events are shown.
TypesShown == {kind \in InputKinds : TypeShown(kind)}

\* C34: from the default filter on, at least one of show_button, show_axis1d
\* and show_axis2d is true; set_type_visible(kind, false) on the last enabled
\* kind returns false and changes nothing, and every other call of
\* set_type_visible returns true and sets the flag of its kind, leaving the
\* other two alone.
C34_OneTypeStaysVisible ==
    [][/\ TypesShown' # {}
       /\ IsCall("set_type_visible") =>
            LET kind == arg'[1]
                visible == arg'[2]
            IN  IF ~visible /\ TypesShown = {kind}
                THEN ret' = FALSE /\ TypesShown' = TypesShown
                ELSE /\ ret' = TRUE
                     /\ (kind \in TypesShown') = visible
                     /\ TypesShown' \ {kind} = TypesShown \ {kind}]_vars

\* Axis1D and Axis2D are hidden and hiding Button, the last kind shown, was
\* refused.
C34_Witness ==
    /\ op = "set_type_visible"
    /\ arg = <<"Button", FALSE>>
    /\ ret = FALSE
    /\ show_button
    /\ ~show_axis1d
    /\ ~show_axis2d

\* C35: on a filter initialized from a log, after set_id_visible(id, false)
\* is_visible(id, kind) is false for every kind, and every id in visible_ids
\* is visible for every kind that is shown.
C35_HiddenIdIsInvisible ==
    initialized =>
        /\ (op = "set_id_visible" /\ arg[2] = FALSE) =>
              \A kind \in InputKinds : ~is_visible(arg[1], kind)
        /\ \A id \in visible_ids, kind \in TypesShown : is_visible(id, kind)

\* The paths listed in recent_files.
ListedPaths == { recent_files[i] : i \in DOMAIN recent_files }

\* C36: after every add_recent_file(path) recent_files holds no path twice,
\* has at most 10 entries and begins with path; when path was listed already
\* the list keeps its length and its paths.
C36_RecentFiles ==
    [][IsCall("add_recent_file") =>
          /\ \A i, j \in DOMAIN recent_files' :
                recent_files'[i] = recent_files'[j] => i = j
          /\ Len(recent_files') <= 10
          /\ recent_files' # <<>>
          /\ recent_files'[1] = arg'
          /\ arg' \in ListedPaths =>
                /\ Len(recent_files') = Len(recent_files)
                /\ ListedPaths' = ListedPaths]_vars

\* Ten paths are listed and the first is not the newest of them: it was
\* listed before and added again, and the list still has ten entries.
C36_Witness ==
    /\ op = "add_recent_file"
    /\ Len(recent_files) = 10
    /\ recent_files[1] = arg
    /\ arg < 9

\* A range within the log: range_start <= range_end < total_frames.
RangeWithinLog ==
    /\ range_start # None
    /\ range_end # None
    /\ range_start[1] <= range_end[1]
    /\ range_end[1] < total_frames

\* How far a frame is from [range_start, range_end]; 0 inside it.
RangeDistance(frame) ==
    IF frame < range_start[1] THEN range_start[1] - frame
    ELSE IF frame > range_end[1] THEN frame - range_end[1]
    ELSE 0

\* C37: with range_start <= range_end < total_frames, advance, previous,
\* go_to_start and go_to_end called with current_frame in
\* [range_start, range_end] leave it there, with either loop setting, and
\* advance and previous called with current_frame outside the range do not
\* move it further away from the range.
C37_RangeClosure ==
    [][RangeWithinLog =>
          /\ (IsCall("advance") \/ IsCall("previous") \/ IsCall("go_to_start")
                  \/ IsCall("go_to_end")) =>
                (RangeDistance(current_frame) = 0 => RangeDistance(current_frame') = 0)
          /\ (IsCall("advance") \/ IsCall("previous")) =>
                RangeDistance(current_frame') <= RangeDistance(current_frame)]_vars

\* advance was called one frame before the range, without looping, and
\* stepped onto its start.
C37_Witness ==
    /\ op = "advance"
    /\ RangeWithinLog
    /\ ~loop_enabled
    /\ range_start[1] < range_end[1]
    /\ pre_frame = range_start[1] - 1
    /\ current_frame = range_start[1]

\* C38: a result built by from_matches and changed through next, prev and
\* set_closest_to_frame has current_index None exactly when matches is empty
\* and otherwise an index below matches.len(), so that current_frame() is
\* Some exactly when there are matches; next() undoes prev() and prev()
\* undoes next(): the index each would move to from the index the other
\* leaves is the index before.
C38_IndexValid ==
    /\ (current_index = None) = (matches = <<>>)
    /\ current_index # None => current_index[1] < Len(matches)
    /\ (result_current_frame # None) = (matches # <<>>)
    /\ matches # <<>> =>
          /\ prev_index(matches, Some(next_index(matches, current_index))) = current_index[1]
          /\ next_index(matches, Some(prev_index(matches, current_index))) = current_index[1]

\* prev() wrapped from the first of three matches to the last, from where
\* next() leads back to the first: the index is 2 and current_frame() is
\* the last match.
C38_Witness ==
    /\ op = "prev"
    /\ matches = <<0, 2, 3>>
    /\ current_index = Some(2)
    /\ result_current_frame = Some(3)
    /\ next_index(matches, current_index) = 0

\* load_file returned: the message it leaves was created now.
LoadFileReturned(result) ==
    /\ IsCall("load_file")
    /\ ret' = result
    /\ status_message' # None
    /\ status_message'[1].created_at = now

\* A step that handle_control_action takes for TogglePlayPause.
TogglePlayPause == handle_control_action(ControlAction("TogglePlayPause", Unit))

\* C39: the state is Playing or Ready only while a log is loaded;
\* TogglePlayPause turns Ready into Playing and Playing into Ready and
\* leaves every other state as it is; load_file ends in Ready when the file
\* parsed, from whatever state, and in Error when it did not.
C39_StateMachine ==
    [][/\ state' \in {"Playing", "Ready"} => log' # None
       /\ TogglePlayPause =>
             state' = CASE state = "Ready" -> "Playing"
                        [] state = "Playing" -> "Ready"
                        [] OTHER -> state
       /\ LoadFileReturned("Ok") => state' = "Ready"
       /\ LoadFileReturned("Err") => state' = "Error"]_vars

\* After a failed load was dismissed, or its message expired, playback of
\* the loaded log was started again.
C39_Witness ==
    /\ state = "Playing"
    /\ op = "reset_timing"
    /\ log # None
    /\ status_message = None
    /\ now >= DISPLAY_DURATION

\* The error message is removed: dismissed, or expired.
ErrorMessageRemoved ==
    /\ state = "Error"
    /\ status_message # None
    /\ status_message' = None

\* C40: a failed load_file sets the Error state and an error message and
\* leaves the loaded log, its path, the filter, the search state and the
\* playback state as they were; when the error message is dismissed or
\* expires, the state becomes Ready if a log is loaded and NoFileLoaded
\* otherwise.
C40_FailedLoad ==
    [][/\ LoadFileReturned("Err") =>
             /\ state' = "Error"
             /\ status_message'[1].kind = "Error"
             /\ UNCHANGED <<log, total_frames, loaded_file_path, filter, search, clock>>
       /\ ErrorMessageRemoved =>
             /\ state' = IF log # None THEN "Ready" ELSE "NoFileLoaded"
             /\ UNCHANGED <<log, total_frames, loaded_file_path, filter, search, clock>>]_vars

\* A file failed to load while a log was loaded, searched and filtered and
\* playback was at its last frame; five seconds later the message is gone
\* and the state is Ready.
C40_Witness ==
    /\ op = "load_file"
    /\ ret = "Err"
    /\ state = "Ready"
    /\ log # None
    /\ status_message = None
    /\ now >= DISPLAY_DURATION
    /\ matches # <<>>
    /\ visible_ids = {2}
    /\ current_frame = total_frames - 1

====
